---- MODULE Spec2Model ----
(***************************************************************************)
(* Flowdash: payment-logic analyzer (src/src/payment_analyzer.py) and the  *)
(* migration agent that drives it (src/src/agent.py).                      *)
(*                                                                         *)
(* Text is modelled as the list of its lines (content.split('\n')); a line *)
(* is a sequence of atoms.  An atom is an indivisible piece of text: a     *)
(* word piece ("stripe", "Customer"), a punctuation mark (".", "("), a     *)
(* single blank " " or one indentation unit "    ".  Adjacent word atoms   *)
(* are read as one identifier, so <<"square","up">> is the text squareup.  *)
(* A regular expression is a sequence of elements, each a set of atoms it  *)
(* accepts or the wildcard ".*"; re.search is a scan over start positions. *)
(***************************************************************************)
EXTENDS Integers, Sequences, FiniteSets, TLC

\* ------------------------------------------------------------------ bounds
MaxLines == 3
MaxFiles == 3

Range(f) == {f[i] : i \in DOMAIN f}

\* ------------------------------------------------------------------- atoms
Punct == {".", "(", ")", ":", "=", ","}
Quotes == {"'", "\""}

\* str.lower() / re.IGNORECASE on a single atom
Lower(a) ==
  CASE a = "Stripe" -> "stripe"
    [] a = "Square" -> "square"
    [] a = "Customer" -> "customer"
    [] a = "Customers" -> "customers"
    [] a = "Payment" -> "payment"
    [] a = "Client" -> "client"
    [] a = "Refund" -> "refund"
    [] a = "Subscription" -> "subscription"
    [] a = "PaymentIntent" -> "paymentintent"
    [] a = "Webhook" -> "webhook"
    [] OTHER -> a

\* --------------------------------------------------------- regular expressions
Lit(a) == [k |-> "set", s |-> {a}]
Cls(S) == [k |-> "set", s |-> S]
Star == [k |-> "star", s |-> {}]
Lits(as) == [i \in DOMAIN as |-> Lit(as[i])]
Quote == Cls(Quotes)

\* does pattern pat, from element i on, match text s starting at position j
RECURSIVE MatchAt(_, _, _, _, _)
MatchAt(pat, i, s, j, ic) ==
  IF i > Len(pat) THEN TRUE
  ELSE IF pat[i].k = "star"
       THEN \E n \in j..(Len(s) + 1) : MatchAt(pat, i + 1, s, n, ic)
       ELSE /\ j <= Len(s)
            /\ IF ic THEN \E b \in pat[i].s : Lower(b) = Lower(s[j])
                     ELSE s[j] \in pat[i].s
            /\ MatchAt(pat, i + 1, s, j + 1, ic)

\* re.search(pattern, s) / re.search(pattern, s, re.IGNORECASE)
Search(pat, s) == \E j \in 1..(Len(s) + 1) : MatchAt(pat, 1, s, j, FALSE)
SearchIC(pat, s) == \E j \in 1..(Len(s) + 1) : MatchAt(pat, 1, s, j, TRUE)

\* ---------------------------------------------------------- pattern catalog
PaymentProvider == {"stripe", "square", "paypal", "braintree", "unknown"}

PaymentPattern(p, prov, ft) == [pattern |-> Lits(p), provider |-> prov, flow_type |-> ft]

patterns == <<
  PaymentPattern(<<"stripe", ".", "Stripe">>, "stripe", "initialization"),
  PaymentPattern(<<"stripe", ".", "Customer", ".", "create">>, "stripe", "customer_creation"),
  PaymentPattern(<<"stripe", ".", "PaymentIntent">>, "stripe", "payment_intent"),
  PaymentPattern(<<"stripe", ".", "Subscription">>, "stripe", "subscription"),
  PaymentPattern(<<"stripe", ".", "Checkout", ".", "Session">>, "stripe", "checkout"),
  PaymentPattern(<<"stripe", ".", "Webhook">>, "stripe", "webhook"),
  PaymentPattern(<<"stripe", ".", "Price">>, "stripe", "pricing"),
  PaymentPattern(<<"stripe", ".", "Product">>, "stripe", "product"),
  PaymentPattern(<<"stripe", ".", "Invoice">>, "stripe", "invoice"),
  PaymentPattern(<<"stripe", ".", "Refund">>, "stripe", "refund"),
  PaymentPattern(<<"square", ".", "Client">>, "square", "initialization"),
  PaymentPattern(<<"square", ".", "models", ".", "CreatePayment">>, "square", "payment_creation"),
  PaymentPattern(<<"square", ".", "models", ".", "CreateCustomer">>, "square", "customer_creation"),
  PaymentPattern(<<"square", ".", "SubscriptionsApi">>, "square", "subscription"),
  PaymentPattern(<<"square", ".", "CheckoutApi">>, "square", "checkout"),
  PaymentPattern(<<"square", ".", "WebhooksApi">>, "square", "webhook"),
  PaymentPattern(<<"square", ".", "CatalogApi">>, "square", "catalog"),
  PaymentPattern(<<"square", ".", "InvoicesApi">>, "square", "invoice"),
  PaymentPattern(<<"square", ".", "RefundsApi">>, "square", "refund") >>

js_patterns == <<
  [pattern |-> <<Lit("require"), Lit("("), Quote, Lit("stripe"), Quote, Lit(")")>>,
   provider |-> "stripe", flow_type |-> "import"],
  [pattern |-> <<Lit("import"), Star, Lit("from"), Lit(" "), Quote, Lit("stripe"), Quote>>,
   provider |-> "stripe", flow_type |-> "import"],
  [pattern |-> <<Lit("require"), Lit("("), Quote, Lit("square"), Quote, Lit(")")>>,
   provider |-> "square", flow_type |-> "import"],
  [pattern |-> <<Lit("import"), Star, Lit("from"), Lit(" "), Quote, Lit("square"), Quote>>,
   provider |-> "square", flow_type |-> "import"],
  PaymentPattern(<<"stripe", ".", "customers", ".", "create">>, "stripe", "customer_creation"),
  PaymentPattern(<<"stripe", ".", "paymentIntents", ".", "create">>, "stripe", "payment_intent"),
  PaymentPattern(<<"stripe", ".", "subscriptions", ".", "create">>, "stripe", "subscription"),
  PaymentPattern(<<"stripe", ".", "checkout", ".", "sessions", ".", "create">>, "stripe", "checkout"),
  PaymentPattern(<<"square", ".", "paymentsApi", ".", "createPayment">>, "square", "payment_creation"),
  PaymentPattern(<<"square", ".", "customersApi", ".", "createCustomer">>, "square", "customer_creation") >>

java_patterns == <<
  PaymentPattern(<<"import", " ", "com", ".", "stripe", ".">>, "stripe", "import"),
  PaymentPattern(<<"import", " ", "com", ".", "square", "up", ".">>, "square", "import"),
  PaymentPattern(<<"Stripe", ".", "apiKey">>, "stripe", "initialization"),
  PaymentPattern(<<"new", " ", "Square", "Client", ".", "Builder">>, "square", "initialization"),
  PaymentPattern(<<"Customer", ".", "create">>, "stripe", "customer_creation"),
  PaymentPattern(<<"PaymentIntent", ".", "create">>, "stripe", "payment_intent"),
  PaymentPattern(<<"Subscription", ".", "create">>, "stripe", "subscription") >>

\* ------------------------------------------------------------------- flows
\* PaymentFlow as built by _create_flow: line_end = line_start, no methods
_create_flow(provider, flow_type, file_path, line_start) ==
  [provider |-> provider, flow_type |-> flow_type, file_path |-> file_path,
   line_start |-> line_start, line_end |-> line_start, methods |-> <<>>]

\* line.strip(): leading and trailing blanks and indentation removed
IsSpace(a) == a \in {" ", "    "}
RECURSIVE LStrip(_)
LStrip(s) == IF s # <<>> /\ IsSpace(Head(s)) THEN LStrip(Tail(s)) ELSE s
RECURSIVE RStrip(_)
RStrip(s) == IF s # <<>> /\ IsSpace(s[Len(s)]) THEN RStrip(SubSeq(s, 1, Len(s) - 1)) ELSE s
Strip(s) == RStrip(LStrip(s))

\* --------------------------------------------------------------- tokenizer
\* A token is a sequence of atoms: one punctuation atom, an identifier (a
\* maximal run of word atoms), <<"$str">> for a string literal, or <<"$err">>
\* for an unterminated string literal.  A comment runs to the end of the line.
Flush(acc, cur) == IF cur = <<>> THEN acc ELSE Append(acc, cur)

RECURSIVE SkipString(_, _)
\* index in s of the first quote q, or 0 if there is none
SkipString(s, q) ==
  IF s = <<>> THEN 0
  ELSE IF Head(s) = q THEN 1
  ELSE LET r == SkipString(Tail(s), q) IN IF r = 0 THEN 0 ELSE r + 1

RECURSIVE Tok(_, _, _)
Tok(s, cur, acc) ==
  IF s = <<>> THEN Flush(acc, cur)
  ELSE LET a == Head(s) IN
    IF a = "#" THEN Flush(acc, cur)
    ELSE IF IsSpace(a) THEN Tok(Tail(s), <<>>, Flush(acc, cur))
    ELSE IF a \in Punct THEN Tok(Tail(s), <<>>, Append(Flush(acc, cur), <<a>>))
    ELSE IF a \in Quotes THEN
      LET n == SkipString(Tail(s), a) IN
        IF n = 0 THEN Append(Flush(acc, cur), <<"$err">>)
        ELSE Tok(SubSeq(s, n + 2, Len(s)), <<>>, Append(Flush(acc, cur), <<"$str">>))
    ELSE Tok(Tail(s), Append(cur, a), acc)

Tokenize(line) == Tok(line, <<>>, <<>>)

RECURSIVE Indent(_)
\* number of leading indentation units of a line
Indent(line) == IF line # <<>> /\ Head(line) = "    " THEN 1 + Indent(Tail(line)) ELSE 0

Keywords == {"import", "from", "def"}
IsIdent(tok) == /\ tok # <<>>
                /\ \A k \in DOMAIN tok : tok[k] \notin Punct /\ tok[k] \notin {"$str", "$err"}
                /\ ~(Len(tok) = 1 /\ tok[1] \in Keywords)

\* ------------------------------------------------------- syntax tree (ast)
\* Every node has the same shape: t the node class, id the identifier it
\* carries (Name.id, Attribute.attr, FunctionDef.name, alias.name), kids its
\* child nodes in ast.iter_child_nodes order, and its line range.
Node(t, id, kids, lineno, end_lineno) ==
  [t |-> t, id |-> id, kids |-> kids, lineno |-> lineno, end_lineno |-> end_lineno]
Fail == [ok |-> FALSE, node |-> Node("none", <<>>, <<>>, 0, 0), next |-> 0]
Ok(node, next) == [ok |-> TRUE, node |-> node, next |-> next]

RECURSIVE ParsePrimary(_, _, _, _)
RECURSIVE ParseTrailers(_, _, _, _, _)
RECURSIVE ParseArg(_, _, _, _)

\* T the tokens of a logical line, L the physical line of each token; a node
\* gets the line of its first token (node.lineno), le is the statement's end

\* primary := (identifier | string) trailer*
ParsePrimary(T, L, i, le) ==
  IF i > Len(T) THEN Fail
  ELSE IF T[i] = <<"$str">> THEN ParseTrailers(T, L, i + 1, Node("Constant", <<>>, <<>>, L[i], le), le)
  ELSE IF IsIdent(T[i]) THEN ParseTrailers(T, L, i + 1, Node("Name", T[i], <<>>, L[i], le), le)
  ELSE Fail

\* argument := identifier "=" primary | primary
ParseArg(T, L, i, le) ==
  IF i + 1 <= Len(T) /\ IsIdent(T[i]) /\ T[i + 1] = <<"=">>
  THEN LET v == ParsePrimary(T, L, i + 2, le) IN
         IF v.ok THEN Ok(Node("keyword", T[i], <<v.node>>, L[i], le), v.next) ELSE Fail
  ELSE ParsePrimary(T, L, i, le)

\* trailer := "." identifier | "(" [argument] ")"
ParseTrailers(T, L, i, node, le) ==
  IF i > Len(T) THEN Ok(node, i)
  ELSE IF T[i] = <<".">> THEN
    IF i + 1 <= Len(T) /\ IsIdent(T[i + 1])
    THEN ParseTrailers(T, L, i + 2, Node("Attribute", T[i + 1], <<node>>, node.lineno, le), le)
    ELSE Fail
  ELSE IF T[i] = <<"(">> THEN
    IF i + 1 <= Len(T) /\ T[i + 1] = <<")">>
    THEN ParseTrailers(T, L, i + 2, Node("Call", <<>>, <<node>>, node.lineno, le), le)
    ELSE LET a == ParseArg(T, L, i + 1, le) IN
      IF a.ok /\ a.next <= Len(T) /\ T[a.next] = <<")">>
      THEN ParseTrailers(T, L, a.next + 1, Node("Call", <<>>, <<node, a.node>>, node.lineno, le), le)
      ELSE Fail
  ELSE Ok(node, i)

RECURSIVE ParseDotted(_, _, _)
\* dotted_name := identifier ("." identifier)* ; the name is kept as one atom
\* sequence with its dots
ParseDotted(T, i, acc) ==
  IF i <= Len(T) /\ IsIdent(T[i])
  THEN IF i + 1 <= Len(T) /\ T[i + 1] = <<".">>
       THEN ParseDotted(T, i + 2, acc \o T[i] \o <<".">>)
       ELSE [ok |-> TRUE, name |-> acc \o T[i], next |-> i + 1]
  ELSE [ok |-> FALSE, name |-> <<>>, next |-> 0]

RECURSIVE ParseAliases(_, _, _, _, _)
\* "import" dotted_name ("," dotted_name)*
ParseAliases(T, i, acc, ln, le) ==
  LET d == ParseDotted(T, i, <<>>) IN
    IF ~d.ok THEN Fail
    ELSE LET as == Append(acc, Node("alias", d.name, <<>>, ln, le)) IN
           IF d.next > Len(T) THEN Ok(Node("Import", <<>>, as, ln, le), d.next)
           ELSE IF T[d.next] = <<",">> THEN ParseAliases(T, d.next + 1, as, ln, le)
           ELSE Fail

\* one simple statement from the tokens of a logical line
ParseSimple(T, L, ln, le) ==
  IF T[1] = <<"import">> THEN ParseAliases(T, 2, <<>>, ln, le)
  ELSE IF T[1] = <<"from">> THEN
    LET d == ParseDotted(T, 2, <<>>) IN
      IF d.ok /\ d.next + 1 = Len(T) /\ T[d.next] = <<"import">> /\ IsIdent(T[d.next + 1])
      THEN Ok(Node("ImportFrom", d.name,
                   <<Node("alias", T[d.next + 1], <<>>, ln, le)>>, ln, le), Len(T) + 1)
      ELSE Fail
  ELSE IF Len(T) >= 2 /\ IsIdent(T[1]) /\ T[2] = <<"=">> THEN
    LET v == ParsePrimary(T, L, 3, le) IN
      IF v.ok /\ v.next = Len(T) + 1
      THEN Ok(Node("Assign", <<>>, <<Node("Name", T[1], <<>>, ln, le), v.node>>, ln, le), v.next)
      ELSE Fail
  ELSE LET v == ParsePrimary(T, L, 1, le) IN
      IF v.ok /\ v.next = Len(T) + 1
      THEN Ok(Node("Expr", <<>>, <<v.node>>, ln, le), v.next)
      ELSE Fail

\* "def" identifier "(" ")" ":"
IsDefHeader(T) == /\ Len(T) = 5 /\ T[1] = <<"def">> /\ IsIdent(T[2])
                  /\ T[3] = <<"(">> /\ T[4] = <<")">> /\ T[5] = <<":">>

RECURSIVE Depth(_)
\* open brackets minus closed brackets in a token list
Depth(T) == IF T = <<>> THEN 0
            ELSE (IF Head(T) = <<"(">> THEN 1 ELSE IF Head(T) = <<")">> THEN -1 ELSE 0) + Depth(Tail(T))

RECURSIVE Gather(_, _, _, _)
\* the logical line starting at physical line j: lines are joined while a
\* bracket is open; last = 0 when the text ends inside an open bracket
Gather(lines, j, acc, accL) ==
  LET new == Tokenize(lines[j])
      T == acc \o new
      L == accL \o [k \in DOMAIN new |-> j]
  IN IF Depth(T) <= 0 THEN [toks |-> T, lnos |-> L, last |-> j]
     ELSE IF j = Len(lines) THEN [toks |-> T, lnos |-> L, last |-> 0]
     ELSE Gather(lines, j + 1, T, L)

HasErr(T) == \E k \in DOMAIN T : T[k] = <<"$err">>

RECURSIVE ParseBlock(_, _, _, _)
\* the statements of one block at indentation ind, from line i on
ParseBlock(lines, i, ind, acc) ==
  IF i > Len(lines) THEN [ok |-> TRUE, stmts |-> acc, next |-> i]
  ELSE IF Tokenize(lines[i]) = <<>> THEN ParseBlock(lines, i + 1, ind, acc)
  ELSE LET g == Gather(lines, i, <<>>, <<>>)
           li == Indent(lines[i])
           bad == [ok |-> FALSE, stmts |-> <<>>, next |-> 0]
       IN
    IF g.last = 0 \/ HasErr(g.toks) THEN bad
    ELSE IF li < ind THEN [ok |-> TRUE, stmts |-> acc, next |-> i]
    ELSE IF li > ind THEN bad
    ELSE IF IsDefHeader(g.toks) THEN
      LET sub == ParseBlock(lines, g.last + 1, ind + 1, <<>>) IN
        IF ~sub.ok \/ sub.stmts = <<>> THEN bad
        ELSE ParseBlock(lines, sub.next, ind,
               Append(acc, Node("FunctionDef", g.toks[2], sub.stmts, i,
                                sub.stmts[Len(sub.stmts)].end_lineno)))
    ELSE LET st == ParseSimple(g.toks, g.lnos, i, g.last) IN
        IF ~st.ok THEN bad
        ELSE ParseBlock(lines, g.last + 1, ind, Append(acc, st.node))

\* ast.parse(content): ok = FALSE stands for SyntaxError
ast_parse(lines) ==
  LET b == ParseBlock(lines, 1, 0, <<>>) IN
    [ok |-> b.ok, tree |-> Node("Module", <<>>, b.stmts, 0, 0)]

RECURSIVE Walk(_, _)
\* ast.walk: breadth-first, children appended to the right of the queue
Walk(todo, out) ==
  IF todo = <<>> THEN out
  ELSE Walk(Tail(todo) \o Head(todo).kids, Append(out, Head(todo)))

ast_walk(node) == Walk(<<node>>, <<>>)

\* ---------------------------------------------------------------- analyzer
RECURSIVE Reverse(_)
Reverse(s) == IF s = <<>> THEN <<>> ELSE Append(Reverse(Tail(s)), Head(s))

RECURSIVE JoinDot(_)
\* '.'.join(parts)
JoinDot(parts) ==
  IF parts = <<>> THEN <<>>
  ELSE IF Len(parts) = 1 THEN parts[1]
  ELSE parts[1] \o <<".">> \o JoinDot(Tail(parts))

RECURSIVE CallParts(_, _)
\* the while loop of _get_call_string: follow .value, collecting attr names,
\* until a Name is reached or the current object has no .value
CallParts(current, parts) ==
  IF current.t = "Attribute"
  THEN LET p1 == Append(parts, current.id)
           nxt == current.kids[1]
       IN IF nxt.t = "Name" THEN Append(p1, nxt.id) ELSE CallParts(nxt, p1)
  ELSE parts


\* mutant: the collected parts are joined without being reversed
_get_call_string_unreversed(node) ==
  LET func == node.kids[1] IN
    IF func.t = "Name" THEN func.id
    ELSE IF func.t = "Attribute" THEN JoinDot(CallParts(func, <<>>))
    ELSE <<>>

_get_call_string(node) ==
  LET func == node.kids[1] IN
    IF func.t = "Name" THEN func.id
    ELSE IF func.t = "Attribute" THEN JoinDot(Reverse(CallParts(func, <<>>)))
    ELSE <<>>

RECURSIVE CallFlows(_, _, _, _)
\* the loop over self.patterns for one call: one flow per matching pattern
CallFlows(k, call_str, file_path, lineno) ==
  IF k > Len(patterns) THEN <<>>
  ELSE (IF Search(patterns[k].pattern, call_str)
        THEN <<[_create_flow(patterns[k].provider, patterns[k].flow_type, file_path, lineno)
                 EXCEPT !.methods = <<call_str>>]>>
        ELSE <<>>) \o CallFlows(k + 1, call_str, file_path, lineno)

RECURSIVE FunctionMatches(_, _, _)
\* the (pattern, call string) pairs found by _analyze_function, in the order
\* the nested loops visit them
FunctionMatches(nodes, n, k) ==
  IF n > Len(nodes) THEN <<>>
  ELSE IF nodes[n].t # "Call" \/ k > Len(patterns) THEN FunctionMatches(nodes, n + 1, 1)
  ELSE (IF Search(patterns[k].pattern, _get_call_string(nodes[n]))
        THEN <<[pat |-> k, call_str |-> _get_call_string(nodes[n])]>>
        ELSE <<>>) \o FunctionMatches(nodes, n, k + 1)


\* mutant: the flow is returned whatever the provider is
_analyze_function_keep_unknown(node, file_path) ==
  LET ms == FunctionMatches(ast_walk(node), 1, 1)
      provider == IF ms = <<>> THEN "unknown" ELSE patterns[ms[Len(ms)].pat].provider
      flow_type == IF ms = <<>> THEN "unknown" ELSE patterns[ms[Len(ms)].pat].flow_type
  IN <<[_create_flow(provider, flow_type, file_path, node.lineno)
         EXCEPT !.line_end = node.end_lineno,
                !.methods = [i \in DOMAIN ms |-> ms[i].call_str]]>>

\* returns <<flow>> or <<>> (None)
_analyze_function(node, file_path) ==
  LET ms == FunctionMatches(ast_walk(node), 1, 1)
      provider == IF ms = <<>> THEN "unknown" ELSE patterns[ms[Len(ms)].pat].provider
      flow_type == IF ms = <<>> THEN "unknown" ELSE patterns[ms[Len(ms)].pat].flow_type
  IN IF provider # "unknown"
     THEN <<[_create_flow(provider, flow_type, file_path, node.lineno)
              EXCEPT !.line_end = node.end_lineno,
                     !.methods = [i \in DOMAIN ms |-> ms[i].call_str]]>>
     ELSE <<>>

ContainsToken(name, tok) == \E k \in DOMAIN name : Lower(name[k]) = tok

RECURSIVE ImportFlows(_, _, _, _)
\* the loop over node.names of an ast.Import
ImportFlows(names, k, file_path, lineno) ==
  IF k > Len(names) THEN <<>>
  ELSE (IF ContainsToken(names[k].id, "stripe")
        THEN <<_create_flow("stripe", "import", file_path, lineno)>>
        ELSE IF ContainsToken(names[k].id, "square")
        THEN <<_create_flow("square", "import", file_path, lineno)>>
        ELSE <<>>) \o ImportFlows(names, k + 1, file_path, lineno)

FunctionKeywords == {"payment", "charge", "subscription", "checkout", "billing"}

\* the body of the loop "for node in ast.walk(tree)" of _analyze_python
NodeFlows(node, file_path) ==
  IF node.t = "Import" THEN ImportFlows(node.kids, 1, file_path, node.lineno)
  ELSE IF node.t = "Call" THEN CallFlows(1, _get_call_string(node), file_path, node.lineno)
  ELSE IF node.t = "FunctionDef" THEN
    IF \E kw \in FunctionKeywords : ContainsToken(node.id, kw)
    THEN _analyze_function(node, file_path)
    ELSE <<>>
  ELSE <<>>

RECURSIVE WalkFlows(_, _, _)
WalkFlows(nodes, n, file_path) ==
  IF n > Len(nodes) THEN <<>>
  ELSE NodeFlows(nodes[n], file_path) \o WalkFlows(nodes, n + 1, file_path)

RECURSIVE LineScan(_, _, _, _, _, _)
\* "for i, line in enumerate(lines, 1): for pattern in table: if re.search"
LineScan(table, ic, file_path, lines, i, k) ==
  IF i > Len(lines) THEN <<>>
  ELSE IF k > Len(table) THEN LineScan(table, ic, file_path, lines, i + 1, 1)
  ELSE (IF (IF ic THEN SearchIC(table[k].pattern, lines[i]) ELSE Search(table[k].pattern, lines[i]))
        THEN <<[_create_flow(table[k].provider, table[k].flow_type, file_path, i)
                 EXCEPT !.methods = <<Strip(lines[i])>>]>>
        ELSE <<>>) \o LineScan(table, ic, file_path, lines, i, k + 1)

_fallback_analysis(file_path, content) == LineScan(patterns, FALSE, file_path, content, 1, 1)


\* mutant: a SyntaxError is swallowed without the line-level scan
_analyze_python_no_fallback(file_path, content) ==
  LET p == ast_parse(content) IN
    IF p.ok THEN WalkFlows(ast_walk(p.tree), 1, file_path)
    ELSE <<>>

_analyze_python(file_path, content) ==
  LET p == ast_parse(content) IN
    IF p.ok THEN WalkFlows(ast_walk(p.tree), 1, file_path)
    ELSE _fallback_analysis(file_path, content)

_analyze_javascript(file_path, content) == LineScan(js_patterns, TRUE, file_path, content, 1, 1)

_analyze_java(file_path, content) == LineScan(java_patterns, FALSE, file_path, content, 1, 1)

\* a path is <<stem, extension>>
EndsWith(file_path, exts) == file_path[Len(file_path)] \in exts

analyze_file(file_path, content) ==
  IF EndsWith(file_path, {".py"}) THEN _analyze_python(file_path, content)
  ELSE IF EndsWith(file_path, {".js", ".ts", ".jsx", ".tsx"}) THEN _analyze_javascript(file_path, content)
  ELSE IF EndsWith(file_path, {".java", ".kt"}) THEN _analyze_java(file_path, content)
  ELSE <<>>

\* ------------------------------------------------------------ architecture
\* PaymentFlow with the list fields given; models and webhooks left at their
\* default (empty list)
PaymentFlow(provider, flow_type, file_path, line_start, line_end, methods, endpoints) ==
  [provider |-> provider, flow_type |-> flow_type, file_path |-> file_path,
   line_start |-> line_start, line_end |-> line_end, methods |-> methods,
   endpoints |-> endpoints, models |-> <<>>, webhooks |-> <<>>]

\* a dict: a function on its keys
EmptyDict == [x \in {} |-> 0]
Put(d, key, val) == [x \in (DOMAIN d) \cup {key} |-> IF x = key THEN val ELSE d[x]]

\* mutant: the flow type is put in front of the provider's list
ProviderEntryPrepend(providers, flow) ==
  LET entry == IF flow.provider \in DOMAIN providers THEN providers[flow.provider]
               ELSE [flows |-> <<>>, files |-> {}, methods |-> {}]
  IN Put(providers, flow.provider,
         [flows |-> <<flow.flow_type>> \o entry.flows,
          files |-> entry.files \cup {flow.file_path},
          methods |-> entry.methods \cup Range(flow.methods)])

\* architecture["providers"] after one flow: the entry is created on first
\* sight, then flows.append / files.add / methods.update
ProviderEntry(providers, flow) ==
  LET entry == IF flow.provider \in DOMAIN providers THEN providers[flow.provider]
               ELSE [flows |-> <<>>, files |-> {}, methods |-> {}]
  IN Put(providers, flow.provider,
         [flows |-> Append(entry.flows, flow.flow_type),
          files |-> entry.files \cup {flow.file_path},
          methods |-> entry.methods \cup Range(flow.methods)])

\* mutant: the count of a flow type is set on first sight and never incremented
FlowSummaryNoIncrement(flow_summary, flow) ==
  IF flow.flow_type \in DOMAIN flow_summary THEN flow_summary
  ELSE Put(flow_summary, flow.flow_type, 1)

\* architecture["flow_summary"] after one flow
FlowSummary(flow_summary, flow) ==
  LET start == IF flow.flow_type \in DOMAIN flow_summary THEN flow_summary
               ELSE Put(flow_summary, flow.flow_type, 0)
  IN Put(start, flow.flow_type, start[flow.flow_type] + 1)

RECURSIVE Accumulate(_, _, _)
\* the loop "for flow in flows"
Accumulate(fl, n, arch) ==
  IF n > Len(fl) THEN arch
  ELSE Accumulate(fl, n + 1,
         [providers |-> ProviderEntry(arch.providers, fl[n]),
          endpoints |-> arch.endpoints \o fl[n].endpoints,
          webhooks |-> arch.webhooks \o fl[n].webhooks,
          models |-> arch.models \o fl[n].models,
          flow_summary |-> FlowSummary(arch.flow_summary, fl[n])])

\* list(a_set): the elements once each, in an order the set decides
Listings(S) == {q \in [1..Cardinality(S) -> S] : \A i, j \in DOMAIN q : i # j => q[i] # q[j]}

\* the results extract_payment_architecture(flows) can return: they differ
\* only in the order of the files and methods lists
extract_payment_architecture(fl) ==
  LET arch == Accumulate(fl, 1, [providers |-> EmptyDict, endpoints |-> <<>>, webhooks |-> <<>>,
                                 models |-> <<>>, flow_summary |-> EmptyDict])
      Entries(p) == {[flows |-> arch.providers[p].flows, files |-> fs, methods |-> ms] :
                       fs \in Listings(arch.providers[p].files),
                       ms \in Listings(arch.providers[p].methods)}
      AllEntries == UNION {Entries(p) : p \in DOMAIN arch.providers}
  IN {[arch EXCEPT !.providers = pr] :
        pr \in {f \in [DOMAIN arch.providers -> AllEntries] :
                  \A p \in DOMAIN arch.providers : f[p] \in Entries(p)}}

\* ---------------------------------------------------------------- converter
\* a pattern that is a literal, or a literal ending in "(" followed by the
\* lazy group (.*?) and ")"; the replacement is a literal, followed for a
\* group pattern by the captured text \1 and ")"
ConversionRule(pattern, group, replacement, provider) ==
  [pattern |-> pattern, group |-> group, replacement |-> replacement, provider |-> provider]

conversion_rules ==
  << ConversionRule(<<"import", " ", "stripe">>, FALSE, <<"import", " ", "flowglad">>, "stripe"),
     ConversionRule(<<"stripe", ".", "Stripe", "(">>, TRUE, <<"flowglad", ".", "FlowGlad", "(">>, "stripe"),
     ConversionRule(<<"stripe", ".", "Customer", ".", "create">>, FALSE,
                    <<"flowglad", ".", "customers", ".", "create">>, "stripe"),
     ConversionRule(<<"stripe", ".", "PaymentIntent", ".", "create">>, FALSE,
                    <<"flowglad", ".", "checkout", ".", "sessions", ".", "create">>, "stripe"),
     ConversionRule(<<"stripe", ".", "Subscription", ".", "create">>, FALSE,
                    <<"flowglad", ".", "subscriptions", ".", "create">>, "stripe"),
     ConversionRule(<<"stripe", ".", "Price", ".", "create">>, FALSE,
                    <<"flowglad", ".", "prices", ".", "create">>, "stripe"),
     ConversionRule(<<"stripe", ".", "Product", ".", "create">>, FALSE,
                    <<"flowglad", ".", "products", ".", "create">>, "stripe"),
     ConversionRule(<<"stripe", ".", "Webhook", ".", "construct_event">>, FALSE,
                    <<"flowglad", ".", "webhooks", ".", "verify">>, "stripe"),
     ConversionRule(<<"stripe", ".", "Refund", ".", "create">>, FALSE,
                    <<"flowglad", ".", "refunds", ".", "create">>, "stripe"),
     ConversionRule(<<"stripe", ".", "Invoice">>, FALSE, <<"flowglad", ".", "invoices">>, "stripe"),
     ConversionRule(<<"stripe", ".", "checkout", ".", "Session", ".", "create">>, FALSE,
                    <<"flowglad", ".", "checkout", ".", "sessions", ".", "create">>, "stripe"),
     ConversionRule(<<"from", " ", "square", ".", "client", " ", "import", " ", "Client">>, FALSE,
                    <<"from", " ", "flowglad", " ", "import", " ", "FlowGlad">>, "square"),
     ConversionRule(<<"Client", "(">>, TRUE, <<"FlowGlad", "(">>, "square"),
     ConversionRule(<<".", "payments_api", ".", "create_payment">>, FALSE,
                    <<".", "payments", ".", "create">>, "square"),
     ConversionRule(<<".", "customers_api", ".", "create_customer">>, FALSE,
                    <<".", "customers", ".", "create">>, "square"),
     ConversionRule(<<".", "subscriptions_api", ".", "create_subscription">>, FALSE,
                    <<".", "subscriptions", ".", "create">>, "square"),
     ConversionRule(<<".", "catalog_api", ".", "upsert_catalog_object">>, FALSE,
                    <<".", "products", ".", "create">>, "square"),
     ConversionRule(<<".", "refunds_api", ".", "refund">>, FALSE,
                    <<".", "refunds", ".", "create">>, "square"),
     ConversionRule(<<"STRIPE_SECRET_KEY">>, FALSE, <<"FLOWGLAD_SECRET_KEY">>, "stripe"),
     ConversionRule(<<"STRIPE_PUBLISHABLE_KEY">>, FALSE, <<"FLOWGLAD_PUBLISHABLE_KEY">>, "stripe"),
     ConversionRule(<<"SQUARE_ACCESS_TOKEN">>, FALSE, <<"FLOWGLAD_SECRET_KEY">>, "square"),
     ConversionRule(<<"SQUARE_ENVIRONMENT">>, FALSE, <<"FLOWGLAD_ENVIRONMENT">>, "square") >>

\* the (pattern, replacement) pairs of js_rules; the provider field is the key
\* of the dict they are listed under
js_rules ==
  << ConversionRule(<<"const", " ", "stripe", " ", "=", " ", "require", "(", "'", "stripe", "'", ")">>, FALSE,
                    <<"const", " ", "flowglad", " ", "=", " ", "require", "(", "'", "flowglad", "'", ")">>,
                    "stripe"),
     ConversionRule(<<"import", " ", "Stripe", " ", "from", " ", "'", "stripe", "'">>, FALSE,
                    <<"import", " ", "FlowGlad", " ", "from", " ", "'", "flowglad", "'">>, "stripe"),
     ConversionRule(<<"new", " ", "Stripe", "(">>, TRUE, <<"new", " ", "FlowGlad", "(">>, "stripe"),
     ConversionRule(<<"stripe", ".", "customers", ".", "create">>, FALSE,
                    <<"flowglad", ".", "customers", ".", "create">>, "stripe"),
     ConversionRule(<<"stripe", ".", "paymentIntents", ".", "create">>, FALSE,
                    <<"flowglad", ".", "checkout", ".", "sessions", ".", "create">>, "stripe"),
     ConversionRule(<<"stripe", ".", "subscriptions", ".", "create">>, FALSE,
                    <<"flowglad", ".", "subscriptions", ".", "create">>, "stripe"),
     ConversionRule(<<"stripe", ".", "prices", ".", "create">>, FALSE,
                    <<"flowglad", ".", "prices", ".", "create">>, "stripe"),
     ConversionRule(<<"stripe", ".", "products", ".", "create">>, FALSE,
                    <<"flowglad", ".", "products", ".", "create">>, "stripe"),
     ConversionRule(<<"stripe", ".", "webhooks", ".", "constructEvent">>, FALSE,
                    <<"flowglad", ".", "webhooks", ".", "verify">>, "stripe"),
     ConversionRule(<<"process", ".", "env", ".", "STRIPE_SECRET_KEY">>, FALSE,
                    <<"process", ".", "env", ".", "FLOWGLAD_SECRET_KEY">>, "stripe"),
     ConversionRule(<<"const", " ", "{", " ", "Client", " ", "}", " ", "=", " ", "require", "(", "'", "square", "'", ")">>,
                    FALSE,
                    <<"const", " ", "{", " ", "FlowGlad", " ", "}", " ", "=", " ", "require", "(", "'", "flowglad", "'", ")">>,
                    "square"),
     ConversionRule(<<"import", " ", "{", " ", "Client", " ", "}", " ", "from", " ", "'", "square", "'">>, FALSE,
                    <<"import", " ", "{", " ", "FlowGlad", " ", "}", " ", "from", " ", "'", "flowglad", "'">>,
                    "square"),
     ConversionRule(<<"new", " ", "Client", "(">>, TRUE, <<"new", " ", "FlowGlad", "(">>, "square"),
     ConversionRule(<<".", "paymentsApi", ".", "createPayment">>, FALSE,
                    <<".", "payments", ".", "create">>, "square"),
     ConversionRule(<<".", "customersApi", ".", "createCustomer">>, FALSE,
                    <<".", "customers", ".", "create">>, "square"),
     ConversionRule(<<".", "subscriptionsApi", ".", "createSubscription">>, FALSE,
                    <<".", "subscriptions", ".", "create">>, "square"),
     ConversionRule(<<"process", ".", "env", ".", "SQUARE_ACCESS_TOKEN">>, FALSE,
                    <<"process", ".", "env", ".", "FLOWGLAD_SECRET_KEY">>, "square") >>

\* is the literal lit in line s at position i
LitAt(lit, s, i) ==
  /\ i + Len(lit) - 1 <= Len(s)
  /\ \A k \in DOMAIN lit : s[i + k - 1] = lit[k]

\* the position just after the match of rule's pattern that starts at i in
\* line s, or 0 when the pattern does not match at i; the lazy group stops at
\* the first ")" and, like ".", does not leave the line
MatchEnd(rule, s, i) ==
  IF ~LitAt(rule.pattern, s, i) THEN 0
  ELSE IF ~rule.group THEN i + Len(rule.pattern)
  ELSE LET closers == {j \in (i + Len(rule.pattern))..Len(s) : s[j] = ")"}
       IN IF closers = {} THEN 0
          ELSE (CHOOSE j \in closers : \A m \in closers : j <= m) + 1

RECURSIVE SubLine(_, _, _)
\* re.sub(pattern, replacement, s) on one line, scanning from position i:
\* leftmost non-overlapping matches are replaced
SubLine(rule, s, i) ==
  IF i > Len(s) THEN <<>>
  ELSE LET e == MatchEnd(rule, s, i) IN
         IF e = 0 THEN <<s[i]>> \o SubLine(rule, s, i + 1)
         ELSE (IF rule.group
               THEN rule.replacement \o SubSeq(s, i + Len(rule.pattern), e - 2) \o <<")">>
               ELSE rule.replacement) \o SubLine(rule, s, e)

\* re.sub over the whole text: no pattern matches across a newline
re_sub(rule, code) == [l \in DOMAIN code |-> SubLine(rule, code[l], 1)]

RECURSIVE ApplyRules(_, _, _, _)
\* "for rule in rules: if rule.provider == provider: code = re.sub(...)"
ApplyRules(rules, k, provider, code) ==
  IF k > Len(rules) THEN code
  ELSE ApplyRules(rules, k + 1, provider,
                  IF rules[k].provider = provider THEN re_sub(rules[k], code) ELSE code)

\* atoms that are not word characters (a word boundary \b lies next to them)
NonWord == Punct \cup Quotes \cup {" ", "    ", "{", "}", "#"}

param_mappings(provider) ==
  IF provider = "stripe"
  THEN << <<"amount", "amount">>, <<"currency", "currency">>, <<"customer", "customer_id">>,
          <<"payment_method", "payment_method_id">>, <<"description", "description">>,
          <<"metadata", "metadata">>, <<"automatic_payment_methods", "auto_confirm">>,
          <<"payment_method_types", "payment_methods">>, <<"line_items", "items">>,
          <<"mode", "checkout_mode">>, <<"success_url", "success_url">>,
          <<"cancel_url", "cancel_url">>, <<"price", "price_id">>, <<"quantity", "quantity">> >>
  ELSE IF provider = "square"
  THEN << <<"amount_money", "amount">>, <<"source_id", "payment_source">>,
          <<"idempotency_key", "idempotency_key">>, <<"customer_id", "customer_id">>,
          <<"location_id", "location_id">>, <<"reference_id", "reference_id">>,
          <<"note", "description">>, <<"card_id", "payment_method_id">> >>
  ELSE <<>>

\* re.sub(rf'\b{old_param}=', f'{new_param}=', line)
SubParam(old_param, new_param, s) ==
  [i \in DOMAIN s |->
     IF /\ s[i] = old_param
        /\ i < Len(s) /\ s[i + 1] = "="
        /\ (i = 1 \/ s[i - 1] \in NonWord)
     THEN new_param ELSE s[i]]

RECURSIVE UpdateParams(_, _, _)
UpdateParams(mappings, k, code) ==
  IF k > Len(mappings) THEN code
  ELSE UpdateParams(mappings, k + 1,
                    [l \in DOMAIN code |-> SubParam(mappings[k][1], mappings[k][2], code[l])])

_update_python_params(code, provider) == UpdateParams(param_mappings(provider), 1, code)

\* 'lit' in line
Contains(line, lit) == \E i \in 1..Len(line) : LitAt(lit, line, i)

\* the lines inserted by _add_flowglad_imports
Preamble == << <<"import", " ", "flowglad">>,
               <<"from", " ", "dotenv", " ", "import", " ", "load_dotenv">>,
               <<"load_dotenv", "(", ")">>,
               <<>> >>

\* mutant: only the 'from flowglad' form counts as an existing import
HasFlowgladImportFromOnly(lines) ==
  \E i \in DOMAIN lines : Contains(lines[i], <<"from", " ", "flowglad">>)

\* the first loop: 'import flowglad' in line or 'from flowglad' in line
HasFlowgladImport(lines) ==
  \E i \in DOMAIN lines : \/ Contains(lines[i], <<"import", " ", "flowglad">>)
                          \/ Contains(lines[i], <<"from", " ", "flowglad">>)

\* line.startswith('import ') or line.startswith('from ')
IsImportLine(line) == LitAt(<<"import", " ">>, line, 1) \/ LitAt(<<"from", " ">>, line, 1)

\* mutant: the preamble is put at the top of the file
_add_flowglad_imports_at_top(code) ==
  IF HasFlowgladImport(code) \/ ~\E i \in DOMAIN code : IsImportLine(code[i])
  THEN code
  ELSE Preamble \o code

_add_flowglad_imports(code) ==
  IF HasFlowgladImport(code) \/ ~\E i \in DOMAIN code : IsImportLine(code[i])
  THEN code
  ELSE LET i == CHOOSE j \in DOMAIN code :
                  IsImportLine(code[j]) /\ \A m \in 1..(j - 1) : ~IsImportLine(code[m])
       IN SubSeq(code, 1, i - 1) \o Preamble \o SubSeq(code, i, Len(code))

CodeTransformation(original_code, transformed, transformation_type) ==
  [original_code |-> original_code, transformed_code |-> transformed, file_path |-> "",
   line_range |-> <<0, 0>>, transformation_type |-> transformation_type]

_convert_python(code, provider) ==
  CodeTransformation(code,
    _add_flowglad_imports(_update_python_params(ApplyRules(conversion_rules, 1, provider, code),
                                                provider)),
    "full_conversion")

_convert_javascript(code, provider) ==
  CodeTransformation(code, ApplyRules(js_rules, 1, provider, code), "full_conversion")

\* mutant: the generic path also renames keyword arguments
_convert_generic_with_params(code, provider) ==
  CodeTransformation(code,
    _update_python_params(ApplyRules(conversion_rules, 1, provider, code), provider),
    "generic_conversion")

_convert_generic(code, provider) ==
  CodeTransformation(code, ApplyRules(conversion_rules, 1, provider, code), "generic_conversion")

convert_code(code, provider, file_type) ==
  IF file_type = "python" THEN _convert_python(code, provider)
  ELSE IF file_type \in {"javascript", "typescript"} THEN _convert_javascript(code, provider)
  ELSE _convert_generic(code, provider)

\* ------------------------------------------------------------------ mapper
\* Python values as the mapper meets them in a decoded response: None,
\* numbers (n), strings (s, a sequence of atoms), lists (items) and dicts
\* (keys in insertion order, vals their values)
PyNone == [ty |-> "None", n |-> 0, s |-> <<>>, items |-> <<>>, keys |-> <<>>, vals |-> <<>>]
PyInt(n) == [ty |-> "int", n |-> n, s |-> <<>>, items |-> <<>>, keys |-> <<>>, vals |-> <<>>]
PyStr(atoms) == [ty |-> "str", n |-> 0, s |-> atoms, items |-> <<>>, keys |-> <<>>, vals |-> <<>>]
PyList(items) == [ty |-> "list", n |-> 0, s |-> <<>>, items |-> items, keys |-> <<>>, vals |-> <<>>]
PyDict(keys, vals) == [ty |-> "dict", n |-> 0, s |-> <<>>, items |-> <<>>, keys |-> keys, vals |-> vals]

\* the pieces of a response text: the fences (three backquotes followed by
\* json: "fence_json"; three backquotes alone: "fence"), text that is one
\* JSON document (carrying the value json.loads gives for it) and other text
FenceJson == [k |-> "fence_json", v |-> PyNone]
Fence == [k |-> "fence", v |-> PyNone]
JsonText(value) == [k |-> "json", v |-> value]
Prose == [k |-> "text", v |-> PyNone]
Blank == [k |-> "blank", v |-> PyNone]
IsFence(seg) == seg.k \in {"fence_json", "fence"}

\* text.split(sep)[1].split(fence)[0] where sep is a fence found in text: what
\* follows the first sep, up to the next fence (a fence_json starts with a fence)
Fenced(text, sep) ==
  LET first == CHOOSE i \in DOMAIN text : text[i].k \in sep /\ \A j \in 1..(i - 1) : text[j].k \notin sep
      closers == {j \in (first + 1)..Len(text) : IsFence(text[j])}
      last == IF closers = {} THEN Len(text) + 1
              ELSE CHOOSE j \in closers : \A m \in closers : j <= m
  IN SubSeq(text, first + 1, last - 1)

RECURSIVE StripBlanks(_)
\* str.strip(): leading and trailing blanks removed
StripBlanks(text) ==
  IF text # <<>> /\ text[1].k = "blank" THEN StripBlanks(Tail(text))
  ELSE IF text # <<>> /\ text[Len(text)].k = "blank" THEN StripBlanks(SubSeq(text, 1, Len(text) - 1))
  ELSE text

\* json.loads(json_str.strip()): succeeds when the text is one JSON document
json_loads(json_str) ==
  IF Len(StripBlanks(json_str)) = 1 /\ StripBlanks(json_str)[1].k = "json"
  THEN [raised |-> FALSE, v |-> StripBlanks(json_str)[1].v]
  ELSE [raised |-> TRUE, v |-> PyStr(<<"JSONDecodeError">>)]

\* data.get(key, default)
Get(data, key, default) ==
  IF \E i \in DOMAIN data.keys : data.keys[i] = key
  THEN data.vals[CHOOSE i \in DOMAIN data.keys : data.keys[i] = key]
  ELSE default

PaymentFlowMap(original_provider, flow_description, steps, entities, api_calls, business_logic, validation_rules, error_handling) ==
  [original_provider |-> original_provider, flow_description |-> flow_description,
   steps |-> steps, entities |-> entities, api_calls |-> api_calls,
   business_logic |-> business_logic, validation_rules |-> validation_rules,
   error_handling |-> error_handling]

\* the map returned by the except branch
DegradedMap(provider, message) ==
  PaymentFlowMap(provider, PyStr(<<"Error parsing flow: ">> \o message), PyList(<<>>), PyList(<<>>),
                 PyList(<<>>), PyStr(<<>>), PyList(<<>>), PyList(<<>>))

\* mutant: a decoded value that is not a dict is taken as an empty dict
_parse_flow_response_lenient(response, provider) ==
  LET json_str == IF \E i \in DOMAIN response : response[i].k = "fence_json"
                  THEN Fenced(response, {"fence_json"})
                  ELSE IF \E i \in DOMAIN response : IsFence(response[i])
                  THEN Fenced(response, {"fence_json", "fence"})
                  ELSE response
      loaded == json_loads(json_str)
      data == IF loaded.raised \/ loaded.v.ty # "dict" THEN PyDict(<<>>, <<>>) ELSE loaded.v
  IN PaymentFlowMap(provider,
                    Get(data, "flow_description", PyStr(<<>>)),
                    Get(data, "steps", PyList(<<>>)),
                    Get(data, "entities", PyList(<<>>)),
                    Get(data, "api_calls", PyList(<<>>)),
                    Get(data, "business_logic", PyStr(<<>>)),
                    Get(data, "validation_rules", PyList(<<>>)),
                    Get(data, "error_handling", PyList(<<>>)))

_parse_flow_response(response, provider) ==
  LET json_str == IF \E i \in DOMAIN response : response[i].k = "fence_json"
                  THEN Fenced(response, {"fence_json"})
                  ELSE IF \E i \in DOMAIN response : IsFence(response[i])
                  THEN Fenced(response, {"fence_json", "fence"})
                  ELSE response
      loaded == json_loads(json_str)
  IN IF loaded.raised THEN DegradedMap(provider, loaded.v.s)
     ELSE IF loaded.v.ty # "dict" THEN DegradedMap(provider, <<"AttributeError">>)
     ELSE LET data == loaded.v IN
            PaymentFlowMap(provider,
                           Get(data, "flow_description", PyStr(<<>>)),
                           Get(data, "steps", PyList(<<>>)),
                           Get(data, "entities", PyList(<<>>)),
                           Get(data, "api_calls", PyList(<<>>)),
                           Get(data, "business_logic", PyStr(<<>>)),
                           Get(data, "validation_rules", PyList(<<>>)),
                           Get(data, "error_handling", PyList(<<>>)))

\* what a call did: it returned value, or it raised exception
Returned(value) == [raised |-> FALSE, called |-> TRUE, v |-> value]
Raises(exception) == [raised |-> TRUE, called |-> TRUE, v |-> exception]

\* values len() and iteration accept, and what iteration yields: the items of
\* a list, the characters of a string, the keys of a dict
Sized(x) == x.ty \in {"list", "str", "dict"}
Items(x) ==
  IF x.ty = "list" THEN x.items
  ELSE IF x.ty = "str" THEN [i \in DOMAIN x.s |-> PyStr(<<x.s[i]>>)]
  ELSE [i \in DOMAIN x.keys |-> PyStr(<<x.keys[i]>>)]

\* the scores at which the rating becomes Medium and High
MediumScore == 10
HighScore == 25

\* mutant: the Medium band ends one score later
_assess_complexity_off_by_one(flow_map) ==
  IF ~(Sized(flow_map.steps) /\ Sized(flow_map.entities) /\ Sized(flow_map.validation_rules))
  THEN Raises("TypeError")
  ELSE LET complexity_score == Len(Items(flow_map.steps)) + Len(Items(flow_map.entities))
                                 + Len(Items(flow_map.validation_rules))
       IN Returned(IF complexity_score < MediumScore THEN "Low"
                   ELSE IF complexity_score <= HighScore THEN "Medium"
                   ELSE "High")

_assess_complexity(flow_map) ==
  IF ~(Sized(flow_map.steps) /\ Sized(flow_map.entities) /\ Sized(flow_map.validation_rules))
  THEN Raises("TypeError")
  ELSE LET complexity_score == Len(Items(flow_map.steps)) + Len(Items(flow_map.entities))
                                 + Len(Items(flow_map.validation_rules))
       IN Returned(IF complexity_score < MediumScore THEN "Low"
                   ELSE IF complexity_score < HighScore THEN "Medium"
                   ELSE "High")

RECURSIVE StrAtoms(_)
\* the atoms of str(x).lower()
StrAtoms(x) ==
  IF x.ty = "str" THEN [i \in DOMAIN x.s |-> Lower(x.s[i])]
  ELSE IF x.ty = "list"
  THEN IF x.items = <<>> THEN <<>>
       ELSE StrAtoms(Head(x.items)) \o <<", ">> \o StrAtoms(PyList(Tail(x.items)))
  ELSE IF x.ty = "dict"
  THEN IF x.keys = <<>> THEN <<>>
       ELSE <<Lower(Head(x.keys)), ": ">> \o StrAtoms(Head(x.vals)) \o <<", ">>
              \o StrAtoms(PyDict(Tail(x.keys), Tail(x.vals)))
  ELSE IF x.ty = "None" THEN <<"none">>
  ELSE <<ToString(x.n)>>

\* bool(x)
Truthy(x) == IF x.ty = "None" THEN FALSE
             ELSE IF x.ty = "int" THEN x.n # 0
             ELSE IF x.ty = "dict" THEN x.keys # <<>>
             ELSE IF x.ty = "str" THEN x.s # <<>>
             ELSE x.items # <<>>

_identify_required_changes(flow_map) ==
  (IF Contains(StrAtoms(flow_map.api_calls), <<"webhook">>)
   THEN <<"Update webhook endpoints to FlowGlad format">> ELSE <<>>)
  \o (IF Contains(StrAtoms(flow_map.api_calls), <<"subscription">>)
      THEN <<"Migrate subscription models to FlowGlad subscription API">> ELSE <<>>)
  \o (IF Contains(StrAtoms(flow_map.entities), <<"customer">>)
      THEN <<"Convert customer data model to FlowGlad schema">> ELSE <<>>)
  \o (IF Truthy(flow_map.validation_rules)
      THEN <<"Adapt validation rules to FlowGlad requirements">> ELSE <<>>)
  \o <<"Update API authentication to use FlowGlad keys",
       "Replace provider-specific SDKs with FlowGlad SDK">>

\* flowglad_mapping.get(provider_lower, {}).items(), in dict order
flowglad_mapping(provider_lower) ==
  IF provider_lower = "stripe"
  THEN << <<<<"customer", "_", "creation">>, "flowglad.customers.create">>,
          <<<<"payment", "_", "intent">>, "flowglad.checkout.create">>,
          <<<<"subscription">>, "flowglad.subscriptions.create">>,
          <<<<"webhook">>, "flowglad.webhooks.handle">>,
          <<<<"refund">>, "flowglad.refunds.create">> >>
  ELSE IF provider_lower = "square"
  THEN << <<<<"payment", "_", "creation">>, "flowglad.payments.create">>,
          <<<<"customer", "_", "creation">>, "flowglad.customers.create">>,
          <<<<"subscription">>, "flowglad.subscriptions.create">>,
          <<<<"checkout">>, "flowglad.checkout.create">>,
          <<<<"refund">>, "flowglad.refunds.create">> >>
  ELSE <<>>

RECURSIVE Equivalents(_, _, _, _)
\* the nested loops over api_calls and the mapping: one pair per api_call and
\* pattern with "pattern in api_call.lower()"
Equivalents(api_calls, mapping, n, k) ==
  IF n > Len(api_calls) THEN <<>>
  ELSE IF k > Len(mapping) THEN Equivalents(api_calls, mapping, n + 1, 1)
  ELSE (IF Contains([i \in DOMAIN api_calls[n].s |-> Lower(api_calls[n].s[i])], mapping[k][1])
        THEN <<[original |-> api_calls[n], flowglad |-> mapping[k][2]]>>
        ELSE <<>>) \o Equivalents(api_calls, mapping, n, k + 1)

compare_with_flowglad(flow_map) ==
  LET mapping == flowglad_mapping(flow_map.original_provider)
  IN IF ~Sized(flow_map.api_calls) THEN Raises("TypeError")
     ELSE IF mapping # <<>> /\ \E i \in DOMAIN Items(flow_map.api_calls) :
                                 Items(flow_map.api_calls)[i].ty # "str"
     THEN Raises("AttributeError")
     ELSE IF _assess_complexity(flow_map).raised THEN _assess_complexity(flow_map)
     ELSE Returned([provider |-> flow_map.original_provider,
                    flowglad_equivalents |-> IF mapping = <<>> THEN <<>>
                                             ELSE Equivalents(Items(flow_map.api_calls), mapping, 1, 1),
                    migration_complexity |-> _assess_complexity(flow_map).v,
                    required_changes |-> _identify_required_changes(flow_map)])

\* the document, section by section; a step line is the step's description or
\* its default 'Step i'
generate_documentation(flow_map) ==
  IF ~Sized(flow_map.steps) THEN Raises("TypeError")
  ELSE IF \E i \in DOMAIN Items(flow_map.steps) : Items(flow_map.steps)[i].ty # "dict"
  THEN Raises("AttributeError")
  ELSE IF ~Sized(flow_map.entities) THEN Raises("TypeError")
  ELSE IF \E i \in DOMAIN Items(flow_map.entities) : Items(flow_map.entities)[i].ty # "str"
  THEN Raises("TypeError")
  ELSE IF ~(Sized(flow_map.api_calls) /\ Sized(flow_map.validation_rules)
            /\ Sized(flow_map.error_handling))
  THEN Raises("TypeError")
  ELSE Returned([original_provider |-> flow_map.original_provider,
                 flow_description |-> flow_map.flow_description,
                 steps |-> [i \in DOMAIN Items(flow_map.steps) |->
                              [description |-> Get(Items(flow_map.steps)[i], "description",
                                                   PyStr(<<"Step ", ToString(i)>>)),
                               code |-> Get(Items(flow_map.steps)[i], "code_reference", PyNone)]],
                 entities |-> Items(flow_map.entities),
                 api_calls |-> Items(flow_map.api_calls),
                 business_logic |-> flow_map.business_logic,
                 validation_rules |-> Items(flow_map.validation_rules),
                 error_handling |-> Items(flow_map.error_handling)])

\* ------------------------------------------------------------------- state
VARIABLES
  file_path, content, flows, phase,     \* one call analyze_file(file_path, content)
  config,          \* AgentConfig: auto_apply, create_pr
  authenticated,   \* GitHubMCPConnector._authenticated
  status,          \* FlowGladMigrationAgent.status
  pc,              \* position of run()
  statusLog,       \* every value assigned to status, in order
  calls,           \* collaborator operations and stage methods invoked, in order
  post_attempts,   \* POSTs issued by connect_to_mcp
  payment_files,   \* result of search_payment_files
  idx,             \* loop index of the running stage
  failed,          \* per stage, the loop indices whose item raised
  payment_flows, flow_maps, transformations, files_processed,
  branch_name, pr_url, report, error,
  pr_head,         \* the head argument of each create_pull_request call
  architecture,    \* result of one call extract_payment_architecture(flows)
  code, conv_provider, conv_file_type,   \* one call convert_code(code, provider, file_type)
  transformed_code,                      \* its CodeTransformation.transformed_code
  transformation_type,                   \* its CodeTransformation.transformation_type
  injected,        \* results of successive _add_flowglad_imports calls, starting from code
  response, map_provider,   \* one narrator response handled by the mapper for a provider
  flow_map,                 \* _parse_flow_response(response, provider)
  complexity, comparison, documentation   \* what the calls on flow_map returned or raised

analyzerVars == <<file_path, content, flows, phase>>
agentVars == <<config, authenticated, status, pc, statusLog, calls, post_attempts, payment_files, idx,
               failed, payment_flows, flow_maps, transformations, files_processed,
               branch_name, pr_url, report, error, pr_head>>
converterVars == <<code, conv_provider, conv_file_type, transformed_code, transformation_type, injected>>
mapperVars == <<response, map_provider, flow_map, complexity, comparison, documentation>>
vars == <<file_path, content, flows, phase, config, authenticated, status, pc, statusLog, calls,
          post_attempts, payment_files, idx, failed, payment_flows, flow_maps,
          transformations, files_processed, branch_name, pr_url, report, error, pr_head,
          architecture, code, conv_provider, conv_file_type, transformed_code, transformation_type,
          injected, response, map_provider, flow_map, complexity, comparison, documentation>>

\* --------------------------------------------------------- input universes
PyImportStripe == <<"import", " ", "stripe">>
PyFromSquare == <<"from", " ", "square", ".", "client", " ", "import", " ", "Client">>
PyCustomerCreate == <<"stripe", ".", "Customer", ".", "create", "(", ")">>
PyDefPayment == <<"def", " ", "process", "_", "payment", "(", ")", ":">>
PyDefHelper == <<"def", " ", "helper", "(", ")", ":">>
PyBodyRefund == <<"    ", "stripe", ".", "Refund", ".", "create", "(", "id", "=", "x", ")">>
PyBodyHelper == <<"    ", "helper", "(", ")">>
PyBodyDouble == <<"    ", "stripe", ".", "Price", ".", "stripe", ".", "Refund", ".", "create", "(", ")">>
PyUnclosed == <<"stripe", ".", "Customer", ".", "create", "(">>
PyString == <<"x", " ", "=", " ", "'", "stripe", ".", "Refund", "'">>
JavaCustomerCreate == <<"Customer", ".", "create", "(", "params", ")">>
JavaImport == <<"import", " ", "com", ".", "stripe", ".", "Stripe">>
JsRequire == <<"const", " ", "stripe", " ", "=", " ", "require", "(", "'", "stripe", "'", ")">>
Fib == <<"fib", "(", "n", ")">>

\* the lines a text of each language is drawn from: the language's own
\* constructs, lines of the other languages that its scan must not mistake,
\* and lines with no payment code
PyLines == {PyImportStripe, PyFromSquare, PyCustomerCreate, PyDefPayment, PyDefHelper,
            PyBodyRefund, PyBodyHelper, PyBodyDouble, PyUnclosed, PyString, Fib, <<>>}
JsLines == {JsRequire, PyCustomerCreate, PyBodyRefund, PyString, Fib, <<>>}
JavaLines == {JavaCustomerCreate, JavaImport, PyCustomerCreate, PyBodyHelper, Fib, <<>>}
OtherLines == {PyImportStripe, PyCustomerCreate, Fib}

Paths == {<<"pay", ".py">>, <<"checkout", ".js">>, <<"sub", ".tsx">>, <<"Svc", ".java">>,
          <<"Svc", ".kt">>, <<"pay", ".rb">>}

LinesFor(path) ==
  IF EndsWith(path, {".py"}) THEN PyLines
  ELSE IF EndsWith(path, {".js", ".ts", ".jsx", ".tsx"}) THEN JsLines
  ELSE IF EndsWith(path, {".java", ".kt"}) THEN JavaLines
  ELSE OtherLines

\* content.split('\n') always has at least one line
Contents(path) == UNION {[1..n -> LinesFor(path)] : n \in 1..MaxLines}

\* ------------------------------------------------- specification: analyzer
InitAgentIdle ==
  /\ config = [auto_apply |-> FALSE, create_pr |-> TRUE]
  /\ authenticated = FALSE
  /\ status = "idle" /\ pc = "idle" /\ statusLog = <<>> /\ calls = <<>>
  /\ post_attempts = 0 /\ payment_files = <<>> /\ idx = 0
  /\ failed = [analyze |-> {}, map |-> {}, convert |-> {}]
  /\ payment_flows = <<>> /\ flow_maps = <<>> /\ transformations = <<>>
  /\ files_processed = {} /\ branch_name = "" /\ pr_url = "None"
  /\ report = <<>> /\ error = "" /\ pr_head = <<>>

InitConverterIdle ==
  /\ code = <<>> /\ conv_provider = "" /\ conv_file_type = ""
  /\ transformed_code = <<>> /\ transformation_type = "" /\ injected = <<>>

NotCalled == [raised |-> FALSE, called |-> FALSE, v |-> "not called"]

InitMapperIdle ==
  /\ response = <<>> /\ map_provider = "" /\ flow_map = <<>>
  /\ complexity = NotCalled /\ comparison = NotCalled /\ documentation = NotCalled

InitAnalyzer ==
  /\ file_path \in Paths
  /\ content \in Contents(file_path)
  /\ flows = <<>>
  /\ phase = "input"
  /\ architecture = <<>>
  /\ InitAgentIdle
  /\ InitMapperIdle
  /\ InitConverterIdle

AnalyzeFile ==
  /\ phase = "input"
  /\ flows' = analyze_file(file_path, content)
  /\ phase' = "analyzed"
  /\ UNCHANGED <<file_path, content, architecture>>
  /\ UNCHANGED <<agentVars, converterVars, mapperVars>>

NextAnalyzer == AnalyzeFile

SpecAnalyzer == InitAnalyzer /\ [][NextAnalyzer]_vars

\* ----------------------------------------------- specification: architecture
MaxFlows == 3

StripeRefund == <<"stripe", ".", "Refund", ".", "create">>
StripeCustomerCreate == <<"stripe", ".", "Customer", ".", "create">>
SquareCreatePayment == <<"square", ".", "payments", "_", "api", ".", "create", "_", "payment">>

\* flows as the analyzer and the tests build them: several providers, flow
\* types, files and method lists, some shared between flows
FlowInputs ==
  {PaymentFlow("stripe", "import", <<"pay", ".py">>, 1, 1, <<>>, <<>>),
   PaymentFlow("stripe", "refund", <<"pay", ".py">>, 2, 2, <<StripeRefund>>, <<>>),
   PaymentFlow("stripe", "refund", <<"util", ".py">>, 4, 4, <<StripeRefund>>, <<>>),
   PaymentFlow("stripe", "customer_creation", <<"pay", ".py">>, 10, 15,
               <<StripeCustomerCreate, StripeRefund>>, <<"/api/customers">>),
   PaymentFlow("square", "payment_creation", <<"square", ".py">>, 5, 10,
               <<SquareCreatePayment>>, <<>>),
   PaymentFlow("square", "refund", <<"pay", ".py">>, 7, 7, <<>>, <<>>)}

InitArchitecture ==
  /\ flows \in UNION {[1..n -> FlowInputs] : n \in 0..MaxFlows}
  /\ phase = "input"
  /\ architecture = <<>>
  /\ file_path = <<"", "">> /\ content = <<>>
  /\ InitAgentIdle
  /\ InitMapperIdle
  /\ InitConverterIdle

ExtractArchitecture ==
  /\ phase = "input"
  /\ architecture' \in extract_payment_architecture(flows)
  /\ phase' = "extracted"
  /\ UNCHANGED <<file_path, content, flows>>
  /\ UNCHANGED <<agentVars, converterVars, mapperVars>>

NextArchitecture == ExtractArchitecture

SpecArchitecture == InitArchitecture /\ [][NextArchitecture]_vars

\* -------------------------------------------------- specification: converter
ImportOs == <<"import", " ", "os">>
EnvPy == <<"key", " ", "=", " ", "os", ".", "getenv", "(", "'", "STRIPE_SECRET_KEY", "'", ")">>
EnvJs == <<"process", ".", "env", ".", "STRIPE_SECRET_KEY">>
CustomerCreateKw == <<"stripe", ".", "Customer", ".", "create", "(", "customer", "=", "x", ")">>
ChargeKw == <<"charge", "(", "customer", "=", "x", ")">>
SquarePay == <<"client", ".", "payments_api", ".", "create_payment", "(", "source_id", "=", "x", ")">>
StripeInit == <<"stripe", ".", "Stripe", "(", "key", ")">>

ConvLines == {PyImportStripe, ImportOs, EnvPy, EnvJs, CustomerCreateKw, ChargeKw, SquarePay,
              StripeInit}
ConvProviders == {"stripe", "square"}
FileTypes == {"python", "javascript", "typescript", "java", "ruby", "generic"}

InitConverter ==
  /\ code \in UNION {[1..n -> ConvLines] : n \in 1..MaxLines}
  /\ conv_provider \in ConvProviders
  /\ conv_file_type \in FileTypes
  /\ transformed_code = <<>> /\ transformation_type = "" /\ injected = <<>>
  /\ phase = "input"
  /\ file_path = <<"", "">> /\ content = <<>> /\ flows = <<>> /\ architecture = <<>>
  /\ InitAgentIdle
  /\ InitMapperIdle

ConvertCode ==
  /\ phase = "input"
  /\ transformed_code' = convert_code(code, conv_provider, conv_file_type).transformed_code
  /\ transformation_type' = convert_code(code, conv_provider, conv_file_type).transformation_type
  /\ phase' = "converted"
  /\ UNCHANGED <<file_path, content, flows, architecture, code, conv_provider, conv_file_type, injected>>
  /\ UNCHANGED <<agentVars, mapperVars>>

NextConverter == ConvertCode

SpecConverter == InitConverter /\ [][NextConverter]_vars

\* ----------------------------------------------------- specification: imports
FromFlowglad == <<"from", " ", "flowglad", " ", "import", " ", "FlowGlad">>
CommentFlowglad == <<"#", " ", "import", " ", "flowglad">>
Pass == <<"    ", "pass">>
ImportlibCall == <<"import", "lib", ".", "reload", "(", "x", ")">>
FromDotenv == <<"from", " ", "dotenv", " ", "import", " ", "load_dotenv">>

ImportLines == {ImportOs, FromFlowglad, CommentFlowglad, PyDefPayment, Pass, ImportlibCall,
                FromDotenv, <<>>}

InitImports ==
  /\ code \in UNION {[1..n -> ImportLines] : n \in 1..MaxLines}
  /\ conv_provider = "" /\ conv_file_type = ""
  /\ transformed_code = <<>> /\ transformation_type = "" /\ injected = <<>>
  /\ phase = "input"
  /\ file_path = <<"", "">> /\ content = <<>> /\ flows = <<>> /\ architecture = <<>>
  /\ InitAgentIdle
  /\ InitMapperIdle

\* one call of _add_flowglad_imports, on code and then on its own result
AddFlowgladImports ==
  /\ Len(injected) < 2
  /\ injected' = Append(injected,
                        _add_flowglad_imports(IF injected = <<>> THEN code
                                              ELSE injected[Len(injected)]))
  /\ UNCHANGED <<file_path, content, flows, phase, architecture, code, conv_provider,
                 conv_file_type, transformed_code, transformation_type>>
  /\ UNCHANGED <<agentVars, mapperVars>>

NextImports == AddFlowgladImports

SpecImports == InitImports /\ [][NextImports]_vars

\* ------------------------------------------------------------ mapper calls
\* longest steps, entities and validation_rules list of a sized response
MaxListLen == 9

Str(a) == PyStr(<<a>>)
Field(key, value) == PyDict(<<key>>, <<value>>)

\* a decoded response with a steps, b entities and c validation_rules
SizedObject(a, b, c) ==
  PyDict(<<"steps", "entities", "validation_rules">>,
         <<PyList([i \in 1..a |-> Field("description", Str("step"))]),
           PyList([i \in 1..b |-> Str("payment")]),
           PyList([i \in 1..c |-> Str("amount")])>>)

ApiStripeCustomerCreate == PyStr(<<"stripe", ".", "Customer", ".", "create">>)
ApiStripePaymentIntentCreate == PyStr(<<"stripe", ".", "PaymentIntent", ".", "create">>)
ApiStripeRefundCreate == PyStr(<<"stripe", ".", "Refund", ".", "create">>)
ApiSquareCreatePayment == PyStr(<<"square", ".", "payments", "_", "api", ".", "create", "_", "payment">>)
ApiSquareCheckout == PyStr(<<"square", ".", "checkout", ".", "create">>)

ApiCallsObject(api_calls) ==
  PyDict(<<"flow_description", "steps", "entities", "api_calls", "business_logic",
           "validation_rules", "error_handling">>,
         <<Str("Customer payment"),
           PyList(<<PyDict(<<"description", "code_reference">>,
                           <<Str("Create customer"), Str("line 1")>>),
                    PyDict(<<>>, <<>>)>>),
           PyList(<<Str("Customer")>>),
           PyList(api_calls),
           Str("charge once"),
           PyList(<<Str("amount")>>),
           PyList(<<Str("card_error")>>)>>)

\* documents that decode to a dict
WellFormedObjects ==
  {ApiCallsObject(<<ApiStripeCustomerCreate, ApiStripePaymentIntentCreate>>),
   ApiCallsObject(<<ApiStripeRefundCreate>>),
   ApiCallsObject(<<ApiSquareCreatePayment>>),
   ApiCallsObject(<<ApiSquareCheckout, ApiStripeRefundCreate>>),
   PyDict(<<>>, <<>>)}

\* documents that decode to a dict with a null or mistyped field
OddObjects ==
  {Field("steps", PyNone),
   Field("steps", PyList(<<Str("Create customer")>>)),
   Field("steps", Str("c")),
   Field("entities", PyNone),
   Field("entities", PyList(<<PyInt(1)>>)),
   Field("entities", Str("c")),
   Field("api_calls", PyNone),
   Field("api_calls", PyList(<<Field("name", ApiStripeCustomerCreate)>>)),
   Field("validation_rules", PyInt(3)),
   Field("error_handling", PyNone),
   Field("flow_description", PyNone)}

\* documents that decode to something that is not a dict
NonObjects == {PyNone, PyInt(3), PyList(<<>>), Str("ok")}

\* the ways a document comes wrapped in a response
Wrapped(value) ==
  {<<JsonText(value)>>,
   <<Blank, JsonText(value), Blank>>,
   <<Prose, FenceJson, Blank, JsonText(value), Blank, Fence, Prose>>,
   <<Fence, JsonText(value), Fence>>,
   <<FenceJson, JsonText(value)>>}

\* responses no document can be taken from
Undecodable ==
  {<<>>, <<Prose>>, <<FenceJson, Fence>>, <<Prose, JsonText(PyDict(<<>>, <<>>))>>,
   <<Fence, Prose, Fence, JsonText(PyDict(<<>>, <<>>))>>,
   <<Prose, Fence, JsonText(PyDict(<<>>, <<>>)), FenceJson, JsonText(PyDict(<<>>, <<>>)), JsonText(PyDict(<<>>, <<>>)), Fence>>}

Responses ==
  {<<JsonText(SizedObject(a, b, c))>> : a \in 0..MaxListLen, b \in 0..MaxListLen, c \in 0..MaxListLen}
  \cup UNION {Wrapped(value) : value \in WellFormedObjects \cup OddObjects \cup NonObjects}
  \cup Undecodable

MapProviders == {"stripe", "square", "paypal"}

InitMapper ==
  /\ response \in Responses
  /\ map_provider \in MapProviders
  /\ flow_map = <<>>
  /\ complexity = NotCalled /\ comparison = NotCalled /\ documentation = NotCalled
  /\ phase = "input"
  /\ file_path = <<"", "">> /\ content = <<>> /\ flows = <<>> /\ architecture = <<>>
  /\ InitAgentIdle
  /\ InitConverterIdle

\* return self._parse_flow_response(response, provider)
ParseFlowResponse ==
  /\ phase = "input"
  /\ flow_map' = <<_parse_flow_response(response, map_provider)>>
  /\ phase' = "parsed"
  /\ UNCHANGED <<response, map_provider, complexity, comparison, documentation>>
  /\ UNCHANGED <<file_path, content, flows, architecture, agentVars, converterVars>>

AssessComplexity ==
  /\ phase = "parsed" /\ ~complexity.called
  /\ complexity' = _assess_complexity(flow_map[1])
  /\ UNCHANGED <<response, map_provider, flow_map, comparison, documentation>>
  /\ UNCHANGED <<analyzerVars, architecture, agentVars, converterVars>>

CompareWithFlowglad ==
  /\ phase = "parsed" /\ ~comparison.called
  /\ comparison' = compare_with_flowglad(flow_map[1])
  /\ UNCHANGED <<response, map_provider, flow_map, complexity, documentation>>
  /\ UNCHANGED <<analyzerVars, architecture, agentVars, converterVars>>

GenerateDocumentation ==
  /\ phase = "parsed" /\ ~documentation.called
  /\ documentation' = generate_documentation(flow_map[1])
  /\ UNCHANGED <<response, map_provider, flow_map, complexity, comparison>>
  /\ UNCHANGED <<analyzerVars, architecture, agentVars, converterVars>>

NextMapper == ParseFlowResponse \/ AssessComplexity \/ CompareWithFlowglad \/ GenerateDocumentation

SpecMapper == InitMapper /\ [][NextMapper]_vars

\* --------------------------------------------------- specification: agent
AgentStatus == {"idle", "authenticating", "analyzing", "mapping", "converting",
                "applying", "complete", "error"}

\* @retry(stop=stop_after_attempt(3)) on connect_to_mcp
StopAfterAttempt == 3

\* the repository the agent works on: path -> decoded content
RepoPaths == {<<"pay", ".py">>, <<"checkout", ".js">>, <<"Svc", ".java">>, <<"util", ".py">>}
RepoContent(path) ==
  CASE path = <<"pay", ".py">> -> <<PyImportStripe, PyCustomerCreate>>
    [] path = <<"checkout", ".js">> -> <<JsRequire>>
    [] path = <<"Svc", ".java">> -> <<JavaCustomerCreate>>
    [] OTHER -> <<Fib>>

\* what search_payment_files may return: distinct paths, in any order
SearchResults ==
  {fs \in UNION {[1..n -> RepoPaths] : n \in 0..MaxFiles} :
     \A i, j \in DOMAIN fs : i # j => fs[i] # fs[j]}

_get_file_type(path) ==
  IF EndsWith(path, {".py"}) THEN "python"
  ELSE IF EndsWith(path, {".js", ".jsx"}) THEN "javascript"
  ELSE IF EndsWith(path, {".ts", ".tsx"}) THEN "typescript"
  ELSE IF EndsWith(path, {".java"}) THEN "java"
  ELSE IF EndsWith(path, {".rb"}) THEN "ruby"
  ELSE "generic"

Init ==
  /\ file_path = <<"", "">> /\ content = <<>> /\ flows = <<>> /\ phase = "unused"
  /\ architecture = <<>>
  /\ InitConverterIdle
  /\ config \in [auto_apply : BOOLEAN, create_pr : BOOLEAN]
  /\ authenticated = FALSE
  /\ status = "idle" /\ pc = "idle" /\ statusLog = <<>> /\ calls = <<>>
  /\ post_attempts = 0 /\ payment_files = <<>> /\ idx = 0
  /\ failed = [analyze |-> {}, map |-> {}, convert |-> {}]
  /\ payment_flows = <<>> /\ flow_maps = <<>> /\ transformations = <<>>
  /\ files_processed = {} /\ branch_name = "" /\ pr_url = "None"
  /\ report = <<>> /\ error = "" /\ pr_head = <<>>
  /\ InitMapperIdle

SetStatus(st) == /\ status' = st
                 /\ statusLog' = Append(statusLog, st)

\* "except Exception as e: self.status = AgentStatus.ERROR ... raise"
Raise(msg) == /\ SetStatus("error")
              /\ pc' = "raised"
              /\ error' = msg

\* self.status = AgentStatus.AUTHENTICATING
EnterAuthenticating ==
  /\ pc = "idle"
  /\ SetStatus("authenticating")
  /\ pc' = "authenticate"
  /\ UNCHANGED <<config, authenticated, calls, post_attempts, payment_files, idx, failed, payment_flows,
                 flow_maps, transformations, files_processed, branch_name, pr_url, report, error>>
  /\ UNCHANGED <<analyzerVars, architecture, converterVars, mapperVars, pr_head>>


\* mutant: the result of authenticate() is not looked at
AuthenticateIgnoreResult ==
  /\ pc = "authenticate"
  /\ calls' = Append(calls, "authenticate")
  /\ \E success \in BOOLEAN : authenticated' = success
  /\ pc' = "connect"
  /\ UNCHANGED <<config, status, statusLog, error, post_attempts, payment_files, idx, failed,
                 payment_flows, flow_maps, transformations, files_processed, branch_name,
                 pr_url, report>>
  /\ UNCHANGED <<analyzerVars, architecture, converterVars, mapperVars, pr_head>>

\* _authenticate: success = await self.mcp_connector.authenticate()
Authenticate ==
  /\ pc = "authenticate"
  /\ calls' = Append(calls, "authenticate")
  /\ \E success \in BOOLEAN :
       /\ authenticated' = success
       /\ IF success
          THEN pc' = "connect" /\ UNCHANGED <<status, statusLog, error>>
          ELSE Raise("GitHub authentication failed")
  /\ UNCHANGED <<config, post_attempts, payment_files, idx, failed, payment_flows,
                 flow_maps, transformations, files_processed, branch_name, pr_url, report>>
  /\ UNCHANGED <<analyzerVars, architecture, converterVars, mapperVars, pr_head>>

\* mutant: the retry gives up one attempt later
ConnectToMcpOneMore ==
  /\ pc = "connect"
  /\ post_attempts < StopAfterAttempt + 1
  /\ post_attempts' = post_attempts + 1
  /\ calls' = IF post_attempts = 0 THEN Append(calls, "connect_to_mcp") ELSE calls
  /\ \E ok \in BOOLEAN :
       IF ok THEN pc' = "authenticated" /\ UNCHANGED <<status, statusLog, error>>
       ELSE IF post_attempts' = StopAfterAttempt + 1 THEN Raise("RetryError")
       ELSE UNCHANGED <<pc, status, statusLog, error>>
  /\ UNCHANGED <<config, authenticated, payment_files, idx, failed, payment_flows,
                 flow_maps, transformations, files_processed, branch_name, pr_url, report>>
  /\ UNCHANGED <<analyzerVars, architecture, converterVars, mapperVars, pr_head>>

\* one attempt of connect_to_mcp under its retry decorator
ConnectToMcp ==
  /\ pc = "connect"
  /\ post_attempts < StopAfterAttempt
  /\ post_attempts' = post_attempts + 1
  /\ calls' = IF post_attempts = 0 THEN Append(calls, "connect_to_mcp") ELSE calls
  /\ \E ok \in BOOLEAN :
       IF ok THEN pc' = "authenticated" /\ UNCHANGED <<status, statusLog, error>>
       ELSE IF post_attempts' = StopAfterAttempt THEN Raise("RetryError")
       ELSE UNCHANGED <<pc, status, statusLog, error>>
  /\ UNCHANGED <<config, authenticated, payment_files, idx, failed, payment_flows,
                 flow_maps, transformations, files_processed, branch_name, pr_url, report>>
  /\ UNCHANGED <<analyzerVars, architecture, converterVars, mapperVars, pr_head>>

\* self.status = AgentStatus.ANALYZING; payment_flows = await self._analyze_repository()
EnterAnalyzing ==
  /\ pc = "authenticated"
  /\ SetStatus("analyzing")
  /\ calls' = Append(calls, "_analyze_repository")
  /\ pc' = "an_get_repository"
  /\ UNCHANGED <<config, authenticated, post_attempts, payment_files, idx, failed, payment_flows,
                 flow_maps, transformations, files_processed, branch_name, pr_url, report, error>>
  /\ UNCHANGED <<analyzerVars, architecture, converterVars, mapperVars, pr_head>>

\* repo = await self.mcp_connector.get_repository(...): outside any try
AnalyzeGetRepository ==
  /\ pc = "an_get_repository"
  /\ calls' = Append(calls, "get_repository")
  /\ \E ok \in BOOLEAN :
       IF ok THEN pc' = "an_search" /\ UNCHANGED <<status, statusLog, error>>
       ELSE Raise("get_repository failed")
  /\ UNCHANGED <<config, authenticated, post_attempts, payment_files, idx, failed, payment_flows,
                 flow_maps, transformations, files_processed, branch_name, pr_url, report>>
  /\ UNCHANGED <<analyzerVars, architecture, converterVars, mapperVars, pr_head>>

\* payment_files = await self.mcp_connector.search_payment_files(repo): outside any try
AnalyzeSearch ==
  /\ pc = "an_search"
  /\ calls' = Append(calls, "search_payment_files")
  /\ \/ /\ \E fs \in SearchResults : payment_files' = fs
        /\ idx' = 1
        /\ pc' = "an_loop"
        /\ UNCHANGED <<status, statusLog, error>>
     \/ /\ Raise("search_payment_files failed")
        /\ UNCHANGED <<payment_files, idx>>
  /\ UNCHANGED <<config, authenticated, post_attempts, failed, payment_flows,
                 flow_maps, transformations, files_processed, branch_name, pr_url, report>>
  /\ UNCHANGED <<analyzerVars, architecture, converterVars, mapperVars, pr_head>>

\* one iteration of "for file_info in payment_files" with its try/except
AnalyzeItem ==
  /\ pc = "an_loop"
  /\ idx <= Len(payment_files)
  /\ \E ok \in BOOLEAN :
       IF ok
       THEN /\ payment_flows' = payment_flows \o
                 analyze_file(payment_files[idx], RepoContent(payment_files[idx]))
            /\ UNCHANGED failed
       ELSE /\ failed' = [failed EXCEPT !.analyze = @ \cup {idx}]
            /\ UNCHANGED payment_flows
  /\ idx' = idx + 1
  /\ UNCHANGED <<config, authenticated, status, pc, statusLog, calls, post_attempts, payment_files,
                 flow_maps, transformations, files_processed, branch_name, pr_url, report, error>>
  /\ UNCHANGED <<analyzerVars, architecture, converterVars, mapperVars, pr_head>>

\* return all_flows
AnalyzeReturn ==
  /\ pc = "an_loop"
  /\ idx > Len(payment_files)
  /\ pc' = "analyzed"
  /\ UNCHANGED <<config, authenticated, status, statusLog, calls, post_attempts, payment_files, idx, failed,
                 payment_flows, flow_maps, transformations, files_processed, branch_name,
                 pr_url, report, error>>
  /\ UNCHANGED <<analyzerVars, architecture, converterVars, mapperVars, pr_head>>

\* self.status = AgentStatus.MAPPING; flow_maps = await self._map_flows(payment_flows)
EnterMapping ==
  /\ pc = "analyzed"
  /\ SetStatus("mapping")
  /\ calls' = Append(calls, "_map_flows")
  /\ idx' = 1
  /\ pc' = "map_loop"
  /\ UNCHANGED <<config, authenticated, post_attempts, payment_files, failed, payment_flows,
                 flow_maps, transformations, files_processed, branch_name, pr_url, report, error>>
  /\ UNCHANGED <<analyzerVars, architecture, converterVars, mapperVars, pr_head>>


\* mutant: a failing flow ends the loop (no per-item recovery)
MapItemBreak ==
  /\ pc = "map_loop"
  /\ idx <= Len(payment_flows)
  /\ \E ok \in BOOLEAN :
       IF ok
       THEN /\ flow_maps' = Append(flow_maps, [flow |-> payment_flows[idx]])
            /\ idx' = idx + 1
            /\ UNCHANGED failed
       ELSE /\ failed' = [failed EXCEPT !.map = @ \cup {idx}]
            /\ idx' = Len(payment_flows) + 1
            /\ UNCHANGED flow_maps
  /\ UNCHANGED <<config, authenticated, status, pc, statusLog, calls, post_attempts,
                 payment_files, payment_flows, transformations, files_processed, branch_name,
                 pr_url, report, error>>
  /\ UNCHANGED <<analyzerVars, architecture, converterVars, mapperVars, pr_head>>

\* one iteration of "for flow in payment_flows" of _map_flows: get_repository,
\* get_file_content, map_payment_flow and compare_with_flowglad inside one try
MapItem ==
  /\ pc = "map_loop"
  /\ idx <= Len(payment_flows)
  /\ \E ok \in BOOLEAN :
       IF ok
       THEN /\ flow_maps' = Append(flow_maps, [flow |-> payment_flows[idx]])
            /\ UNCHANGED failed
       ELSE /\ failed' = [failed EXCEPT !.map = @ \cup {idx}]
            /\ UNCHANGED flow_maps
  /\ idx' = idx + 1
  /\ UNCHANGED <<config, authenticated, status, pc, statusLog, calls, post_attempts, payment_files,
                 payment_flows, transformations, files_processed, branch_name, pr_url,
                 report, error>>
  /\ UNCHANGED <<analyzerVars, architecture, converterVars, mapperVars, pr_head>>

\* return flow_maps
MapReturn ==
  /\ pc = "map_loop"
  /\ idx > Len(payment_flows)
  /\ pc' = "mapped"
  /\ UNCHANGED <<config, authenticated, status, statusLog, calls, post_attempts, payment_files, idx, failed,
                 payment_flows, flow_maps, transformations, files_processed, branch_name,
                 pr_url, report, error>>
  /\ UNCHANGED <<analyzerVars, architecture, converterVars, mapperVars, pr_head>>


\* mutant: the stage is started without assigning the status
EnterConvertingNoStatus ==
  /\ pc = "mapped"
  /\ calls' = Append(calls, "_convert_code")
  /\ idx' = 1
  /\ pc' = "convert_loop"
  /\ UNCHANGED <<config, authenticated, status, statusLog, post_attempts, payment_files, failed,
                 payment_flows, flow_maps, transformations, files_processed, branch_name,
                 pr_url, report, error>>
  /\ UNCHANGED <<analyzerVars, architecture, converterVars, mapperVars, pr_head>>

\* self.status = AgentStatus.CONVERTING; transformations = await self._convert_code(payment_flows)
EnterConverting ==
  /\ pc = "mapped"
  /\ SetStatus("converting")
  /\ calls' = Append(calls, "_convert_code")
  /\ idx' = 1
  /\ pc' = "convert_loop"
  /\ UNCHANGED <<config, authenticated, post_attempts, payment_files, failed, payment_flows,
                 flow_maps, transformations, files_processed, branch_name, pr_url, report, error>>
  /\ UNCHANGED <<analyzerVars, architecture, converterVars, mapperVars, pr_head>>

\* mutant: a file is skipped only once it has a transformation, so a later
\* flow of a file whose conversion raised is tried again
ConvertItemRetry ==
  /\ pc = "convert_loop"
  /\ idx <= Len(payment_flows)
  /\ LET flow == payment_flows[idx] IN
       IF \E t \in DOMAIN transformations : transformations[t].file_path = flow.file_path
       THEN UNCHANGED <<files_processed, transformations, failed>>
       ELSE /\ files_processed' = files_processed \cup {flow.file_path}
            /\ \E ok \in BOOLEAN :
                 IF ok
                 THEN /\ transformations' = Append(transformations,
                           [file_path |-> flow.file_path, provider |-> flow.provider,
                            file_type |-> _get_file_type(flow.file_path)])
                      /\ UNCHANGED failed
                 ELSE /\ failed' = [failed EXCEPT !.convert = @ \cup {idx}]
                      /\ UNCHANGED transformations
  /\ idx' = idx + 1
  /\ UNCHANGED <<config, authenticated, status, pc, statusLog, calls, post_attempts, payment_files,
                 payment_flows, flow_maps, branch_name, pr_url, report, error>>
  /\ UNCHANGED <<analyzerVars, architecture, converterVars, mapperVars, pr_head>>

\* one iteration of "for flow in payment_flows" of _convert_code
ConvertItem ==
  /\ pc = "convert_loop"
  /\ idx <= Len(payment_flows)
  /\ LET flow == payment_flows[idx] IN
       IF flow.file_path \in files_processed
       THEN UNCHANGED <<files_processed, transformations, failed>>
       ELSE /\ files_processed' = files_processed \cup {flow.file_path}
            /\ \E ok \in BOOLEAN :
                 IF ok
                 THEN /\ transformations' = Append(transformations,
                           [file_path |-> flow.file_path, provider |-> flow.provider,
                            file_type |-> _get_file_type(flow.file_path)])
                      /\ UNCHANGED failed
                 ELSE /\ failed' = [failed EXCEPT !.convert = @ \cup {idx}]
                      /\ UNCHANGED transformations
  /\ idx' = idx + 1
  /\ UNCHANGED <<config, authenticated, status, pc, statusLog, calls, post_attempts, payment_files,
                 payment_flows, flow_maps, branch_name, pr_url, report, error>>
  /\ UNCHANGED <<analyzerVars, architecture, converterVars, mapperVars, pr_head>>

\* return transformations
ConvertReturn ==
  /\ pc = "convert_loop"
  /\ idx > Len(payment_flows)
  /\ pc' = "converted"
  /\ UNCHANGED <<config, authenticated, status, statusLog, calls, post_attempts, payment_files, idx, failed,
                 payment_flows, flow_maps, transformations, files_processed, branch_name,
                 pr_url, report, error>>
  /\ UNCHANGED <<analyzerVars, architecture, converterVars, mapperVars, pr_head>>


\* mutant: changes are applied whatever config.auto_apply says
EnterApplyingAlways ==
  /\ pc = "converted"
  /\ SetStatus("applying")
  /\ calls' = Append(calls, "_apply_changes")
  /\ pc' = "ap_get_repository"
  /\ UNCHANGED <<config, authenticated, post_attempts, payment_files, idx, failed, payment_flows,
                 flow_maps, transformations, files_processed, branch_name, pr_url, report, error>>
  /\ UNCHANGED <<analyzerVars, architecture, converterVars, mapperVars, pr_head>>

\* if self.config.auto_apply: self.status = AgentStatus.APPLYING;
\* pr_url = await self._apply_changes(transformations)
EnterApplying ==
  /\ pc = "converted"
  /\ config.auto_apply
  /\ SetStatus("applying")
  /\ calls' = Append(calls, "_apply_changes")
  /\ pc' = "ap_get_repository"
  /\ UNCHANGED <<config, authenticated, post_attempts, payment_files, idx, failed, payment_flows,
                 flow_maps, transformations, files_processed, branch_name, pr_url, report, error>>
  /\ UNCHANGED <<analyzerVars, architecture, converterVars, mapperVars, pr_head>>

\* else: pr_url = None
SkipApplying ==
  /\ pc = "converted"
  /\ ~config.auto_apply
  /\ pr_url' = "None"
  /\ pc' = "applied"
  /\ UNCHANGED <<config, authenticated, status, statusLog, calls, post_attempts, payment_files, idx, failed,
                 payment_flows, flow_maps, transformations, files_processed, branch_name,
                 report, error>>
  /\ UNCHANGED <<analyzerVars, architecture, converterVars, mapperVars, pr_head>>

\* repo = await self.mcp_connector.get_repository(...) in _apply_changes
ApplyGetRepository ==
  /\ pc = "ap_get_repository"
  /\ calls' = Append(calls, "get_repository")
  /\ \E ok \in BOOLEAN :
       IF ok THEN pc' = "ap_create_branch" /\ UNCHANGED <<status, statusLog, error>>
       ELSE Raise("get_repository failed")
  /\ UNCHANGED <<config, authenticated, post_attempts, payment_files, idx, failed, payment_flows,
                 flow_maps, transformations, files_processed, branch_name, pr_url, report>>
  /\ UNCHANGED <<analyzerVars, architecture, converterVars, mapperVars, pr_head>>

\* branch_name = await self.mcp_connector.create_branch(repo, self.config.target_branch)
ApplyCreateBranch ==
  /\ pc = "ap_create_branch"
  /\ calls' = Append(calls, "create_branch")
  /\ \E ok \in BOOLEAN :
       IF ok THEN /\ branch_name' = "flowglad-migration"
                  /\ pc' = "ap_batch"
                  /\ UNCHANGED <<status, statusLog, error>>
       ELSE Raise("create_branch failed") /\ UNCHANGED branch_name
  /\ UNCHANGED <<config, authenticated, post_attempts, payment_files, idx, failed, payment_flows,
                 flow_maps, transformations, files_processed, pr_url, report>>
  /\ UNCHANGED <<analyzerVars, architecture, converterVars, mapperVars, pr_head>>

\* results = await self.editor.batch_convert_files(...): every edit runs under
\* the try/except of _apply_single_edit, so the batch itself returns
ApplyBatch ==
  /\ pc = "ap_batch"
  /\ calls' = Append(calls, "batch_convert_files")
  /\ pc' = "ap_pr"
  /\ UNCHANGED <<config, authenticated, status, statusLog, post_attempts, payment_files, idx, failed,
                 payment_flows, flow_maps, transformations, files_processed, branch_name,
                 pr_url, report, error>>
  /\ UNCHANGED <<analyzerVars, architecture, converterVars, mapperVars, pr_head>>

\* mutant: the pull request is created whatever config.create_pr says
ApplyCreatePRAlways ==
  /\ pc = "ap_pr"
  /\ calls' = Append(calls, "create_pull_request")
  /\ pr_head' = Append(pr_head, branch_name)
  /\ \E ok \in BOOLEAN :
       IF ok THEN /\ pr_url' = "url"
                  /\ pc' = "applied"
                  /\ UNCHANGED <<status, statusLog, error>>
       ELSE Raise("create_pull_request failed") /\ UNCHANGED pr_url
  /\ UNCHANGED <<config, authenticated, post_attempts, payment_files, idx, failed, payment_flows,
                 flow_maps, transformations, files_processed, branch_name, report>>
  /\ UNCHANGED <<analyzerVars, architecture, converterVars, mapperVars>>

\* if self.config.create_pr: ... create_pull_request(..., head=branch_name); return pr_info['url']
ApplyCreatePR ==
  /\ pc = "ap_pr"
  /\ config.create_pr
  /\ calls' = Append(calls, "create_pull_request")
  /\ pr_head' = Append(pr_head, branch_name)
  /\ \E ok \in BOOLEAN :
       IF ok THEN /\ pr_url' = "url"
                  /\ pc' = "applied"
                  /\ UNCHANGED <<status, statusLog, error>>
       ELSE Raise("create_pull_request failed") /\ UNCHANGED pr_url
  /\ UNCHANGED <<config, authenticated, post_attempts, payment_files, idx, failed, payment_flows,
                 flow_maps, transformations, files_processed, branch_name, report>>
  /\ UNCHANGED <<analyzerVars, architecture, converterVars, mapperVars>>

\* return None
ApplyNoPR ==
  /\ pc = "ap_pr"
  /\ ~config.create_pr
  /\ pr_url' = "None"
  /\ pc' = "applied"
  /\ UNCHANGED <<config, authenticated, status, statusLog, calls, post_attempts, payment_files, idx, failed,
                 payment_flows, flow_maps, transformations, files_processed, branch_name,
                 report, error>>
  /\ UNCHANGED <<analyzerVars, architecture, converterVars, mapperVars, pr_head>>

\* set(f.file_path for f in flows)
UniqueFiles(fl) == {fl[i].file_path : i \in DOMAIN fl}

\* mutant: files are counted per flow, not per distinct file_path
_generate_report_per_flow(fl, ts, url) ==
  [files_analyzed |-> Len(fl),
   payment_flows_found |-> Len(fl),
   files_converted |-> Len(ts),
   conversion_success_rate |-> IF fl # <<>> THEN <<Len(ts), Len(fl)>> ELSE <<0, 1>>,
   pr_url |-> url]

_generate_report(fl, ts, url) ==
  [files_analyzed |-> Cardinality(UniqueFiles(fl)),
   payment_flows_found |-> Len(fl),
   files_converted |-> Len(ts),
   conversion_success_rate |->
     IF UniqueFiles(fl) # {} THEN <<Len(ts), Cardinality(UniqueFiles(fl))>> ELSE <<0, 1>>,
   pr_url |-> url]

\* mutant: the report is produced without the status being assigned
CompleteNoStatus ==
  /\ pc = "applied"
  /\ pc' = "report"
  /\ UNCHANGED <<config, authenticated, status, statusLog, calls, post_attempts, payment_files, idx, failed,
                 payment_flows, flow_maps, transformations, files_processed, branch_name, pr_url,
                 report, error>>
  /\ UNCHANGED <<analyzerVars, architecture, converterVars, mapperVars, pr_head>>

\* self.status = AgentStatus.COMPLETE
Complete ==
  /\ pc = "applied"
  /\ SetStatus("complete")
  /\ pc' = "report"
  /\ UNCHANGED <<config, authenticated, calls, post_attempts, payment_files, idx, failed, payment_flows,
                 flow_maps, transformations, files_processed, branch_name, pr_url, report, error>>
  /\ UNCHANGED <<analyzerVars, architecture, converterVars, mapperVars, pr_head>>

\* report = self._generate_report(...); self._display_report(report); return report
ReturnReport ==
  /\ pc = "report"
  /\ report' = <<_generate_report(payment_flows, transformations, pr_url)>>
  /\ pc' = "returned"
  /\ UNCHANGED <<config, authenticated, status, statusLog, calls, post_attempts, payment_files, idx, failed,
                 payment_flows, flow_maps, transformations, files_processed, branch_name,
                 pr_url, error>>
  /\ UNCHANGED <<analyzerVars, architecture, converterVars, mapperVars, pr_head>>

Next ==
  \/ EnterAuthenticating \/ Authenticate \/ ConnectToMcp
  \/ EnterAnalyzing \/ AnalyzeGetRepository \/ AnalyzeSearch \/ AnalyzeItem \/ AnalyzeReturn
  \/ EnterMapping \/ MapItem \/ MapReturn
  \/ EnterConverting \/ ConvertItem \/ ConvertReturn
  \/ EnterApplying \/ SkipApplying
  \/ ApplyGetRepository \/ ApplyCreateBranch \/ ApplyBatch \/ ApplyCreatePR \/ ApplyNoPR
  \/ Complete \/ ReturnReport

Spec == Init /\ [][Next]_vars

\* ------------------------------------------------------------------ claims
IsPrefix(a, b) == Len(a) <= Len(b) /\ SubSeq(b, 1, Len(a)) = a

ExpectedStatuses ==
  <<"authenticating", "analyzing", "mapping", "converting">>
    \o (IF config.auto_apply THEN <<"applying">> ELSE <<>>) \o <<"complete">>

\* C1: a run that returns a report has gone through AUTHENTICATING, ANALYZING,
\* MAPPING, CONVERTING, APPLYING (iff auto_apply) and COMPLETE, in this order
\* and each once; while the run has not raised, the statuses assigned so far
\* are a prefix of that list.
C1_StatusOrder ==
  /\ pc = "returned" => statusLog = ExpectedStatuses
  /\ pc # "raised" => IsPrefix(statusLog, ExpectedStatuses)

C1_Witness ==
  /\ pc = "returned" /\ config.auto_apply
  /\ statusLog = <<"authenticating", "analyzing", "mapping", "converting", "applying", "complete">>

RECURSIVE Keep(_, _, _)
\* the elements of seq whose index is not in S, in order
Keep(seq, i, S) ==
  IF i > Len(seq) THEN <<>>
  ELSE (IF i \in S THEN <<>> ELSE <<seq[i]>>) \o Keep(seq, i + 1, S)

RECURSIVE Flatten(_)
Flatten(ss) == IF ss = <<>> THEN <<>> ELSE Head(ss) \o Flatten(Tail(ss))

\* indices of the flows that are the first of their file
FirstOfFile == {i \in DOMAIN payment_flows :
                  \A j \in 1..(i - 1) : payment_flows[j].file_path # payment_flows[i].file_path}

\* C2: in _analyze_repository, _map_flows and _convert_code an item that
\* raises does not make the stage raise, and when the stage returns its result
\* holds the results of exactly the items that did not raise, in input order.
C2_ItemFailureIsolated ==
  /\ pc = "analyzed" =>
       payment_flows = Flatten([i \in DOMAIN Keep(payment_files, 1, failed.analyze) |->
          analyze_file(Keep(payment_files, 1, failed.analyze)[i],
                       RepoContent(Keep(payment_files, 1, failed.analyze)[i]))])
  /\ pc = "mapped" =>
       flow_maps = [i \in DOMAIN Keep(payment_flows, 1, failed.map) |->
                      [flow |-> Keep(payment_flows, 1, failed.map)[i]]]
  /\ pc = "converted" =>
       LET kept == Keep(payment_flows, 1, (DOMAIN payment_flows \ FirstOfFile) \cup failed.convert)
       IN /\ Len(transformations) = Len(kept)
          /\ \A i \in DOMAIN kept : transformations[i].file_path = kept[i].file_path
  /\ pc = "raised" /\ Len(statusLog) >= 2 =>
       /\ statusLog[Len(statusLog) - 1] \notin {"mapping", "converting"}
       /\ statusLog[Len(statusLog) - 1] = "analyzing" => failed.analyze = {}

C2_Witness ==
  /\ pc = "returned"
  /\ failed.analyze = {1} /\ payment_flows # <<>>
  /\ 1 \in failed.map /\ flow_maps # <<>>
  /\ 1 \in failed.convert /\ transformations # <<>>

CollaboratorFailures == {"get_repository failed", "search_payment_files failed",
                         "create_branch failed", "create_pull_request failed"}

\* C3: a failure of a repository lookup, candidate-file search, branch
\* creation or pull-request creation during run() is recovered where the call
\* was made: run() never raises because of it.
C3_CollaboratorFailureRecovered == ~(pc = "raised" /\ error \in CollaboratorFailures)

\* C4: when authenticate() returns false, run() raises "GitHub authentication
\* failed", the status is ERROR and nothing but authenticate was invoked.
C4_AuthFailureStops ==
  ("authenticate" \in Range(calls) /\ ~authenticated) =>
     /\ pc = "raised" /\ status = "error"
     /\ error = "GitHub authentication failed"
     /\ calls = <<"authenticate">>

C4_Witness == pc = "raised" /\ ~authenticated /\ calls = <<"authenticate">>

\* C5: with auto_apply false the status is never APPLYING, none of
\* _apply_changes' collaborator calls is made, and the report has no pr_url.
C5_AnalysisModeAppliesNothing ==
  ~config.auto_apply =>
     /\ "applying" \notin Range(statusLog)
     /\ Range(calls) \cap {"_apply_changes", "create_branch", "batch_convert_files",
                           "create_pull_request"} = {}
     /\ pc = "returned" => report[1].pr_url = "None"

C5_Witness == pc = "returned" /\ ~config.auto_apply /\ transformations # <<>> /\ report[1].pr_url = "None"

IsPython == EndsWith(file_path, {".py"})
Parsed == ast_parse(content)
ProviderTokens == {"stripe", "square"}

\* C6: a text with no occurrence of 'stripe' or 'square' (any case) yields no
\* flow, whatever the extension of the file.
C6_NoTokenNoFlows ==
  (phase = "analyzed"
     /\ \A i \in DOMAIN content : \A k \in DOMAIN content[i] :
          Lower(content[i][k]) \notin ProviderTokens)
  => flows = <<>>

HasFlow(provider, flow_type) ==
  \E n \in DOMAIN flows : flows[n].provider = provider /\ flows[n].flow_type = flow_type

\* C7 as stated: whenever the text contains a match of a catalog pattern, some
\* returned flow has that pattern's provider and flow_type.
C7_AnyMatchYieldsFlow ==
  phase = "analyzed" =>
    \A k \in DOMAIN patterns :
      (\E i \in DOMAIN content : Search(patterns[k].pattern, content[i]))
        => HasFlow(patterns[k].provider, patterns[k].flow_type)

RECURSIVE ChainText(_)
\* the source text a.b.c of a callee made of names and attribute accesses
ChainText(e) ==
  IF e.t = "Name" THEN e.id
  ELSE ChainText(e.kids[1]) \o <<".">> \o e.id

RECURSIVE IsChain(_)
IsChain(e) == \/ e.t = "Name"
              \/ e.t = "Attribute" /\ IsChain(e.kids[1])

\* C7 (amended): in a .py file that parses, every call whose callee is a
\* dotted name matching a catalog pattern yields a flow of that pattern's
\* provider and flow_type at the call's line, carrying the dotted name; in a
\* .py file that does not parse, every line matching a catalog pattern yields
\* a flow of that pattern's provider and flow_type at that line.
C7_CallMatchYieldsFlow ==
  (phase = "analyzed" /\ IsPython) =>
    LET p == Parsed IN
      IF p.ok
      THEN \A c \in Range(ast_walk(p.tree)) :
             (c.t = "Call" /\ IsChain(c.kids[1])) =>
               LET name == ChainText(c.kids[1]) IN
                 \A k \in DOMAIN patterns :
                   Search(patterns[k].pattern, name)
                   => \E n \in DOMAIN flows :
                        /\ flows[n].provider = patterns[k].provider
                        /\ flows[n].flow_type = patterns[k].flow_type
                        /\ flows[n].line_start = c.lineno
                        /\ flows[n].methods = <<name>>
      ELSE \A i \in DOMAIN content : \A k \in DOMAIN patterns :
             Search(patterns[k].pattern, content[i])
             => \E n \in DOMAIN flows :
                  /\ flows[n].provider = patterns[k].provider
                  /\ flows[n].flow_type = patterns[k].flow_type
                  /\ flows[n].line_start = i

C7_Witness ==
  /\ phase = "analyzed" /\ IsPython /\ Parsed.ok
  /\ content = <<PyDefHelper, PyBodyRefund, PyCustomerCreate>>
  /\ HasFlow("stripe", "refund") /\ HasFlow("stripe", "customer_creation")

NameHasKeyword(name) == \E kw \in FunctionKeywords : \E k \in DOMAIN name : Lower(name[k]) = kw

CallMatchesCatalog(c) ==
  /\ c.t = "Call" /\ IsChain(c.kids[1])
  /\ \E k \in DOMAIN patterns : Search(patterns[k].pattern, ChainText(c.kids[1]))

\* C8: no returned flow has provider UNKNOWN, and a payment-named function
\* none of whose calls matches the catalog contributes no flow (no flow
\* starts at its def line).
C8_NoUnknownProvider ==
  phase = "analyzed" =>
    /\ \A n \in DOMAIN flows : flows[n].provider \in PaymentProvider \ {"unknown"}
    /\ IsPython =>
         LET p == Parsed IN
           p.ok => \A d \in Range(ast_walk(p.tree)) :
                     (d.t = "FunctionDef" /\ NameHasKeyword(d.id)
                        /\ \A c \in Range(ast_walk(d)) : ~CallMatchesCatalog(c))
                     => \A n \in DOMAIN flows : flows[n].line_start # d.lineno

C8_Witness ==
  /\ phase = "analyzed" /\ IsPython /\ Parsed.ok
  /\ content = <<PyDefPayment, PyBodyHelper, PyImportStripe>>
  /\ Len(flows) = 1 /\ flows[1].flow_type = "import"

LineMatches == {ik \in (DOMAIN content) \X (DOMAIN patterns) :
                  Search(patterns[ik[2]].pattern, content[ik[1]])}

\* C9: for a .py file that fails to parse the result is the line-level scan:
\* one flow per (line, catalog pattern) pair that matches, at that line
\* (line_start = line_end), carrying the trimmed line, and nothing else.
C9_FallbackOnSyntaxError ==
  (phase = "analyzed" /\ IsPython /\ ~Parsed.ok) =>
    LET lm == LineMatches IN
      /\ Len(flows) = Cardinality(lm)
      /\ \A ik \in lm : \E n \in DOMAIN flows :
           /\ flows[n].provider = patterns[ik[2]].provider
           /\ flows[n].flow_type = patterns[ik[2]].flow_type
           /\ flows[n].line_start = ik[1]
      /\ \A n \in DOMAIN flows :
           /\ flows[n].line_end = flows[n].line_start
           /\ flows[n].line_start \in DOMAIN content
           /\ flows[n].methods = <<Strip(content[flows[n].line_start])>>
           /\ \E ik \in lm :
                /\ ik[1] = flows[n].line_start
                /\ patterns[ik[2]].provider = flows[n].provider
                /\ patterns[ik[2]].flow_type = flows[n].flow_type

C9_Witness ==
  /\ phase = "analyzed" /\ IsPython /\ ~Parsed.ok
  /\ content = <<PyDefPayment, PyBodyRefund, PyUnclosed>>
  /\ Len(flows) = 2
  /\ flows[1].line_start = 2 /\ flows[1].methods = <<Tail(PyBodyRefund)>>
  /\ flows[2].line_start = 3 /\ flows[2].flow_type = "customer_creation"

\* C10: in a .py file that parses, every import statement, 'import m' or
\* 'from m import x', whose module name contains 'stripe' or 'square' yields
\* an "import" flow of that provider at the statement's line.
C10_EveryImportYieldsFlow ==
  (phase = "analyzed" /\ IsPython) =>
   LET p == Parsed IN
    p.ok => \A st \in Range(ast_walk(p.tree)) : \A tok \in ProviderTokens :
      (\/ st.t = "Import" /\ \E a \in DOMAIN st.kids : ContainsToken(st.kids[a].id, tok)
       \/ st.t = "ImportFrom" /\ ContainsToken(st.id, tok))
      => \E n \in DOMAIN flows :
           /\ flows[n].flow_type = "import"
           /\ flows[n].provider = tok
           /\ flows[n].line_start = st.lineno

\* the catalog patterns matched by a call string, and the first of them
MatchingPatterns(call_str) == {k \in DOMAIN patterns : Search(patterns[k].pattern, call_str)}
FirstMatch(call_str) == CHOOSE k \in MatchingPatterns(call_str) :
                          \A j \in MatchingPatterns(call_str) : k <= j

\* C11: in a .py file that parses, each call expression yields at most one
\* call-level flow, and that flow has the provider and flow_type of the first
\* catalog pattern matching the call string, carries the call string in
\* methods and starts at the call's line.
C11_FirstMatchWins ==
  (phase = "analyzed" /\ IsPython) =>
    LET p == Parsed IN
      p.ok =>
        LET W == ast_walk(p.tree) IN
          \A i \in DOMAIN W :
            W[i].t = "Call" =>
              LET call_str == _get_call_string(W[i])
                  same == {j \in DOMAIN W : /\ W[j].t = "Call"
                                            /\ W[j].lineno = W[i].lineno
                                            /\ _get_call_string(W[j]) = call_str}
                  emitted == {n \in DOMAIN flows : /\ flows[n].line_start = W[i].lineno
                                                   /\ flows[n].line_end = W[i].lineno
                                                   /\ flows[n].methods = <<call_str>>}
              IN /\ Cardinality(emitted) <= Cardinality(same)
                 /\ MatchingPatterns(call_str) # {} =>
                      /\ emitted # {}
                      /\ \A n \in emitted :
                           /\ flows[n].provider = patterns[FirstMatch(call_str)].provider
                           /\ flows[n].flow_type = patterns[FirstMatch(call_str)].flow_type

RECURSIVE MatchingCalls(_, _)
\* the call strings of the calls among nodes that match the catalog, one per
\* call, in the order of nodes
MatchingCalls(nodes, n) ==
  IF n > Len(nodes) THEN <<>>
  ELSE (IF nodes[n].t = "Call" /\ MatchingPatterns(_get_call_string(nodes[n])) # {}
        THEN <<_get_call_string(nodes[n])>>
        ELSE <<>>) \o MatchingCalls(nodes, n + 1)

\* C12: in a .py file that parses, every function definition whose lowercased
\* name contains a payment keyword yields, when a call of its body matches the
\* catalog, exactly one flow starting at the def line, ending at the function's
\* last line, with provider and flow_type of a pattern matching the last
\* matching call and with methods = the matching call strings in walk order;
\* when no call matches, no flow starts at the def line.
C12_FunctionLevelFlow ==
  (phase = "analyzed" /\ IsPython) =>
    LET p == Parsed IN
      p.ok =>
        \A d \in Range(ast_walk(p.tree)) :
          (d.t = "FunctionDef" /\ NameHasKeyword(d.id)) =>
            LET mc == MatchingCalls(ast_walk(d), 1)
                at == {n \in DOMAIN flows : flows[n].line_start = d.lineno}
            IN IF mc = <<>> THEN at = {}
               ELSE /\ Cardinality(at) = 1
                    /\ \A n \in at :
                         /\ flows[n].line_end = d.end_lineno
                         /\ flows[n].line_end >= flows[n].line_start
                         /\ \E k \in MatchingPatterns(mc[Len(mc)]) :
                              /\ flows[n].provider = patterns[k].provider
                              /\ flows[n].flow_type = patterns[k].flow_type
                         /\ flows[n].methods = mc

\* C13: the flows returned for one file are in source line order.
C13_FlowsInLineOrder ==
  phase = "analyzed" =>
    \A m \in DOMAIN flows : \A n \in DOMAIN flows :
      m < n => flows[m].line_start <= flows[n].line_start

RECURSIVE SumOver(_, _)
\* sum of the values of a dict
SumOver(d, keys) ==
  IF keys = {} THEN 0
  ELSE LET k == CHOOSE x \in keys : TRUE IN d[k] + SumOver(d, keys \ {k})

FlowsOf(p) == {n \in DOMAIN flows : flows[n].provider = p}

\* C14: the counts of flow_summary add up to the number of flows, and no
\* provider lists more files than it has flows.
C14_CountLaw ==
  phase = "extracted" =>
    /\ SumOver(architecture.flow_summary, DOMAIN architecture.flow_summary) = Len(flows)
    /\ \A p \in DOMAIN architecture.providers :
         Len(architecture.providers[p].files) <= Cardinality(FlowsOf(p))

C14_Witness ==
  /\ phase = "extracted" /\ Len(flows) = 3
  /\ flows[1].flow_type = "refund" /\ flows[2].flow_type = "refund"
  /\ flows[1].file_path # flows[2].file_path /\ flows[1].provider = flows[2].provider
  /\ flows[3].flow_type = "import"
  /\ architecture.flow_summary["refund"] = 2
  /\ Len(architecture.providers["stripe"].files) = 2

RECURSIVE FlowTypesOf(_, _, _)
\* the flow_type of the flows of provider p among fl[n..], in order
FlowTypesOf(fl, n, p) ==
  IF n > Len(fl) THEN <<>>
  ELSE (IF fl[n].provider = p THEN <<fl[n].flow_type>> ELSE <<>>) \o FlowTypesOf(fl, n + 1, p)

\* C15: per provider, flows is the flow_type of each of the provider's input
\* flows, in input order with repeats, and files / methods list each distinct
\* file path / method string of those flows exactly once; the providers listed
\* are exactly those of the input.
C15_GroupsKeepOrder ==
  phase = "extracted" =>
    /\ DOMAIN architecture.providers = {flows[n].provider : n \in DOMAIN flows}
    /\ \A p \in DOMAIN architecture.providers :
         LET e == architecture.providers[p] IN
           /\ e.flows = FlowTypesOf(flows, 1, p)
           /\ Range(e.files) = {flows[n].file_path : n \in FlowsOf(p)}
           /\ Len(e.files) = Cardinality(Range(e.files))
           /\ Range(e.methods) = UNION {Range(flows[n].methods) : n \in FlowsOf(p)}
           /\ Len(e.methods) = Cardinality(Range(e.methods))

C15_Witness ==
  /\ phase = "extracted" /\ Len(flows) = 3
  /\ flows[1].provider = "stripe" /\ flows[2].provider = "square" /\ flows[3].provider = "stripe"
  /\ flows[1].flow_type = "customer_creation" /\ flows[3].flow_type = "refund"
  /\ flows[1].file_path = flows[3].file_path
  /\ architecture.providers["stripe"].flows = <<"customer_creation", "refund">>
  /\ Len(architecture.providers["stripe"].files) = 1
  /\ architecture.providers["stripe"].methods = <<StripeRefund, StripeCustomerCreate>>

HasAtom(text, a) == \E l \in DOMAIN text : \E i \in DOMAIN text[l] : text[l][i] = a

\* C16: converting, for provider 'stripe' and any file_type, a text that
\* contains STRIPE_SECRET_KEY gives a text that contains FLOWGLAD_SECRET_KEY
\* and no STRIPE_SECRET_KEY.
C16_SecretKeyRenamed ==
  (phase = "converted" /\ conv_provider = "stripe" /\ HasAtom(code, "STRIPE_SECRET_KEY")) =>
    /\ HasAtom(transformed_code, "FLOWGLAD_SECRET_KEY")
    /\ ~HasAtom(transformed_code, "STRIPE_SECRET_KEY")

\* a conversion rule of the requested provider matches somewhere in the text
RuleMatches(text, provider) ==
  \E k \in DOMAIN conversion_rules :
    /\ conversion_rules[k].provider = provider
    /\ \E l \in DOMAIN text : \E i \in DOMAIN text[l] :
         MatchEnd(conversion_rules[k], text[l], i) # 0

\* C17: a text in which no conversion rule of the requested provider matches
\* is returned as it is, apart from the import preamble on the python path.
C17_NoMatchNoChange ==
  (phase = "converted" /\ ~RuleMatches(code, conv_provider)) =>
    transformed_code = IF conv_file_type = "python" THEN _add_flowglad_imports(code) ELSE code

FirstImportLine(text) ==
  IF \E i \in DOMAIN text : IsImportLine(text[i])
  THEN CHOOSE i \in DOMAIN text : IsImportLine(text[i]) /\ \A m \in 1..(i - 1) : ~IsImportLine(text[m])
  ELSE 0

C19_ImportsAlwaysPresent ==
  Len(injected) >= 1 =>
    /\ \E l \in DOMAIN injected[1] : Contains(injected[1][l], <<"import", " ", "flowglad">>)
    /\ \E l \in DOMAIN injected[1] :
         Contains(injected[1][l], <<"from", " ", "dotenv", " ", "import", " ", "load_dotenv">>)
    /\ \E l \in DOMAIN injected[1] : Contains(injected[1][l], <<"load_dotenv", "(", ")">>)

\* C20: injecting into an already injected text changes nothing.
C20_InjectionIdempotent ==
  Len(injected) = 2 => injected[2] = injected[1]

C20_Witness ==
  /\ Len(injected) = 2
  /\ code = <<ImportOs, PyDefPayment, Pass>>
  /\ injected[1] = Preamble \o code
  /\ injected[2] = injected[1]

\* the rules of one provider, in catalog order
ProviderRules(p) == SelectSeq(conversion_rules, LAMBDA r : r.provider = p)

RECURSIVE Chain(_, _, _)
\* rules[k..] applied one after the other, each to the output of the previous
Chain(rules, k, text) ==
  IF k > Len(rules) THEN text ELSE Chain(rules, k + 1, re_sub(rules[k], text))

\* C21: for a file_type other than python, javascript and typescript the
\* result is the text after the requested provider's rules, applied in catalog
\* order each to the output of the previous one, and nothing else: no line is
\* added, no keyword argument is renamed, and the transformation_type is
\* 'generic_conversion'.
C21_GenericOnlyProviderRules ==
  (phase = "converted" /\ conv_file_type \notin {"python", "javascript", "typescript"}) =>
    /\ transformed_code = Chain(ProviderRules(conv_provider), 1, code)
    /\ Len(transformed_code) = Len(code)
    /\ \A a \in {"customer_id", "payment_source"} : HasAtom(transformed_code, a) => HasAtom(code, a)
    /\ transformation_type = "generic_conversion"

C21_Witness ==
  /\ phase = "converted" /\ conv_file_type = "ruby" /\ conv_provider = "stripe"
  /\ code = <<PyImportStripe, ChargeKw, SquarePay>>
  /\ transformed_code = <<<<"import", " ", "flowglad">>, ChargeKw, SquarePay>>
  /\ transformation_type = "generic_conversion"


\* the sizes the rating is computed from, for a map whose three lists are lists
ListsScore(m) == Len(m.steps.items) + Len(m.entities.items) + Len(m.validation_rules.items)
HasLists(m) == m.steps.ty = "list" /\ m.entities.ty = "list" /\ m.validation_rules.ty = "list"

\* C22: _assess_complexity rates a flow map Low when len(steps) + len(entities)
\* + len(validation_rules) is below 10, Medium from 10 to 24 and High from 25
\* on; the sums 9, 10, 24 and 25 rate Low, Medium, Medium and High.
C22_ComplexityBands ==
  (phase = "parsed" /\ complexity.called /\ HasLists(flow_map[1])) =>
    LET n == ListsScore(flow_map[1])
    IN /\ ~complexity.raised
       /\ complexity.v \in {"Low", "Medium", "High"}
       /\ complexity.v = "Low" <=> n <= 9
       /\ complexity.v = "Medium" <=> (10 <= n /\ n <= 24)
       /\ complexity.v = "High" <=> n >= 25
       /\ n = 9 => complexity.v = "Low"
       /\ n = 10 => complexity.v = "Medium"
       /\ n = 24 => complexity.v = "Medium"
       /\ n = 25 => complexity.v = "High"

C22_Witness ==
  /\ phase = "parsed" /\ HasLists(flow_map[1])
  /\ Len(flow_map[1].steps.items) = 9 /\ Len(flow_map[1].entities.items) = 8
  /\ Len(flow_map[1].validation_rules.items) = 8
  /\ complexity.called /\ ~complexity.raised /\ complexity.v = "High"

ApiCallsOf(m) == IF Sized(m.api_calls) THEN Range(Items(m.api_calls)) ELSE {}

\* C23: when the api_calls of a flow map contain a provider SDK call that has
\* a FlowGlad counterpart ('stripe.Customer.create' for stripe,
\* 'square.payments_api.create_payment' for square), compare_with_flowglad
\* returns flowglad_equivalents with a pair of that api_call and its method
\* ('flowglad.customers.create', 'flowglad.payments.create').
C23_KnownCallsGetEquivalents ==
  (phase = "parsed" /\ comparison.called /\ ~comparison.raised) =>
    /\ (map_provider = "stripe" /\ ApiStripeCustomerCreate \in ApiCallsOf(flow_map[1])) =>
         [original |-> ApiStripeCustomerCreate, flowglad |-> "flowglad.customers.create"]
           \in Range(comparison.v.flowglad_equivalents)
    /\ (map_provider = "square" /\ ApiSquareCreatePayment \in ApiCallsOf(flow_map[1])) =>
         [original |-> ApiSquareCreatePayment, flowglad |-> "flowglad.payments.create"]
           \in Range(comparison.v.flowglad_equivalents)

\* responses that do not decode to a structured record
NotARecord == Undecodable \cup UNION {Wrapped(value) : value \in NonObjects}

IsDegraded(m) ==
  /\ m.flow_description.ty = "str" /\ m.flow_description.s # <<>>
  /\ Head(m.flow_description.s) = "Error parsing flow: "
  /\ m.steps = PyList(<<>>) /\ m.entities = PyList(<<>>) /\ m.api_calls = PyList(<<>>)
  /\ m.validation_rules = PyList(<<>>) /\ m.error_handling = PyList(<<>>)

\* C24: for every response text _parse_flow_response returns a PaymentFlowMap
\* and never raises; when the text does not decode to a structured record the
\* map is degraded: original_provider is the provider passed in,
\* flow_description starts with 'Error parsing flow', and steps, entities,
\* api_calls, validation_rules and error_handling are empty.
C24_ParseAlwaysReturnsMap ==
  phase = "parsed" =>
    /\ Len(flow_map) = 1
    /\ DOMAIN flow_map[1] = {"original_provider", "flow_description", "steps", "entities",
                             "api_calls", "business_logic", "validation_rules", "error_handling"}
    /\ flow_map[1].original_provider = map_provider
    /\ response \in NotARecord => IsDegraded(flow_map[1])

C24_Witness ==
  /\ phase = "parsed" /\ response = <<Fence, Prose, Fence, JsonText(PyDict(<<>>, <<>>))>>
  /\ map_provider = "square"
  /\ flow_map = <<DegradedMap("square", <<"JSONDecodeError">>)>>

\* C25: whatever the response text, also one that decodes but has missing,
\* null or mistyped fields, the map _parse_flow_response gives can be passed
\* to compare_with_flowglad and generate_documentation and neither raises.
C25_DownstreamNeverRaises ==
  phase = "parsed" =>
    /\ comparison.called => ~comparison.raised
    /\ documentation.called => ~documentation.raised

\* index of the first flow of the file a transformation is for
FirstIndex(path) == CHOOSE i \in FirstOfFile : payment_flows[i].file_path = path

\* C26: _convert_code attempts a conversion at most once per distinct
\* file_path, at the first flow of the file and with that flow's provider, never
\* again for a later flow of the file even when the attempt failed; it returns
\* at most one CodeTransformation per file, in order of first occurrence, each
\* carrying the file's path.
C26_OneAttemptPerFile ==
  "_convert_code" \in Range(calls) =>
    /\ failed.convert \subseteq FirstOfFile
    /\ Cardinality(failed.convert) + Len(transformations) = Cardinality(files_processed)
    /\ files_processed \subseteq {payment_flows[i].file_path : i \in DOMAIN payment_flows}
    /\ \A t \in DOMAIN transformations :
         /\ transformations[t].file_path \in files_processed
         /\ transformations[t].provider = payment_flows[FirstIndex(transformations[t].file_path)].provider
         /\ FirstIndex(transformations[t].file_path) \notin failed.convert
         /\ \A u \in DOMAIN transformations :
              t < u => FirstIndex(transformations[t].file_path) < FirstIndex(transformations[u].file_path)
    /\ pc = "converted" =>
         files_processed = {payment_flows[i].file_path : i \in DOMAIN payment_flows}

C26_Witness ==
  /\ pc = "converted"
  /\ Len(payment_flows) >= 3 /\ payment_flows[1].file_path = payment_flows[2].file_path
  /\ failed.convert = {1}
  /\ Len(transformations) = 1 /\ transformations[1].file_path = payment_flows[3].file_path

DistinctPaths == {payment_flows[i].file_path : i \in DOMAIN payment_flows}

\* C27: the report of a run has files_analyzed = the number of distinct
\* file_paths among the detected flows, payment_flows_found = the number of
\* flows, files_converted = the number of transformations and
\* conversion_success_rate = files_converted / files_analyzed (0 without
\* flows); files_converted <= files_analyzed, so the rate lies in 0..1.
C27_ReportCounts ==
  pc = "returned" =>
    LET r == report[1]
        rate == r.conversion_success_rate
    IN /\ r.files_analyzed = Cardinality(DistinctPaths)
       /\ r.payment_flows_found = Len(payment_flows)
       /\ r.files_converted = Len(transformations)
       /\ payment_flows # <<>> => rate = <<r.files_converted, r.files_analyzed>>
       /\ payment_flows = <<>> => rate[1] = 0
       /\ r.files_converted <= r.files_analyzed
       /\ 0 <= rate[1] /\ rate[1] <= rate[2] /\ rate[2] > 0

C27_Witness ==
  /\ pc = "returned"
  /\ Len(payment_flows) = 3 /\ Cardinality(DistinctPaths) = 2
  /\ report[1].files_analyzed = 2 /\ report[1].payment_flows_found = 3
  /\ report[1].files_converted = 1 /\ report[1].conversion_success_rate = <<1, 2>>

\* the positions of an operation in calls
Positions(op) == {i \in DOMAIN calls : calls[i] = op}

\* C28: in _apply_changes create_branch is called exactly once and before any
\* edit is applied; create_pull_request is called at most once, only when
\* config.create_pr is true, only after batch_convert_files has returned and
\* with head equal to the branch name create_branch returned; when create_pr
\* is false no pull request is created and the result is None.
C28_BranchThenEditsThenPR ==
  /\ Cardinality(Positions("create_branch")) <= 1
  /\ Cardinality(Positions("create_pull_request")) <= 1
  /\ Cardinality(Positions("create_pull_request")) = Len(pr_head)
  /\ \A b \in Positions("batch_convert_files") :
       \E c \in Positions("create_branch") : c < b /\ branch_name = "flowglad-migration"
  /\ \A q \in Positions("create_pull_request") :
       /\ config.create_pr
       /\ \E b \in Positions("batch_convert_files") : b < q
       /\ pr_head = <<branch_name>> /\ branch_name = "flowglad-migration"
  /\ (pc \in {"applied", "report", "returned"} /\ Positions("_apply_changes") # {}) =>
       /\ Cardinality(Positions("create_branch")) = 1
       /\ Cardinality(Positions("batch_convert_files")) = 1
       /\ ~config.create_pr => (Positions("create_pull_request") = {} /\ pr_url = "None")
       /\ config.create_pr => (Cardinality(Positions("create_pull_request")) = 1 /\ pr_url = "url")

C28_Witness ==
  /\ pc = "applied" /\ config.create_pr /\ pr_url = "url"
  /\ pr_head = <<"flowglad-migration">>
  /\ \E c, b, q \in DOMAIN calls :
       /\ c < b /\ b < q
       /\ calls[c] = "create_branch" /\ calls[b] = "batch_convert_files"
       /\ calls[q] = "create_pull_request"

\* what holds of the POST attempts in every state of a run
AttemptsBounded ==
  /\ post_attempts <= 3
  /\ Cardinality(Positions("connect_to_mcp")) <= 1
  /\ post_attempts > 0 => Positions("connect_to_mcp") # {}
  /\ pc = "connect" => (post_attempts < 3 /\ Positions("_analyze_repository") = {})
  /\ Positions("_analyze_repository") # {} => (post_attempts \in 1..3 /\ error # "RetryError")
  /\ error = "RetryError" =>
       /\ post_attempts = 3
       /\ pc = "raised" /\ status = "error"
       /\ Positions("_analyze_repository") = {}
       /\ "analyzing" \notin Range(statusLog)

\* what one step does to the POST attempts: an attempt is made only while
\* connect_to_mcp runs; a successful one ends the call, a failed one is
\* followed by another unless it was the third, which raises
AttemptStep ==
  post_attempts' # post_attempts =>
    /\ pc = "connect" /\ post_attempts' = post_attempts + 1
    /\ \/ pc' = "authenticated" /\ error' = error
       \/ pc' = "connect" /\ post_attempts' < 3
       \/ pc' = "raised" /\ post_attempts' = 3 /\ error' = "RetryError" /\ status' = "error"

\* C29: one call of connect_to_mcp issues at most 3 POST attempts; it returns
\* after the first attempt that succeeds without a further attempt, and when
\* all 3 fail the failure reaches run(), which ends with status ERROR before
\* analysis has started.
C29_AtMostThreeAttempts == []AttemptsBounded /\ [][AttemptStep]_vars

C29_Witness ==
  /\ pc = "raised" /\ status = "error" /\ error = "RetryError"
  /\ post_attempts = 3 /\ calls = <<"authenticate", "connect_to_mcp">>

\* run() has ended: it returned or it raised
Ended == pc \in {"returned", "raised"}

FinalStatus ==
  /\ pc = "returned" => (status = "complete" /\ Len(report) = 1)
  /\ pc = "raised" => (status = "error" /\ report = <<>>)
  /\ Ended => (status = "complete" <=> pc = "returned")
  /\ Ended => (status = "error" <=> pc = "raised")
  /\ Ended => status \in {"complete", "error"}
  /\ \A i \in DOMAIN statusLog : statusLog[i] \in {"complete", "error"} => i = Len(statusLog)
  /\ report # <<>> => pc = "returned"

TerminalStep ==
  /\ status = "complete" => status' = "complete"
  /\ status = "error" => (status' = "error" /\ pc' = pc)

====
